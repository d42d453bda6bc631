------------------------------ MODULE StoreProofs ------------------------------
(***************************************************************************)
(* Proofs about Store.  The state of each target is tied to the history of *)
(* its completed scans: the baseline is the last of them, the previous one *)
(* the last but one, and the growth counters telescope over all of them.   *)
(***************************************************************************)
EXTENDS Pipeline, TLAPS

\* The state s of one target, done being its completed scans, oldest first, and
\* partials whether partial readings are shown.
Agrees(s, done, partials) ==
    LET n == Len(done) IN
    /\ s.good.has <=> n > 0
    /\ n > 0 => s.good.size = done[n].size /\ s.good.at = done[n].at /\ s.published.has
    /\ s.previousGood.has <=> n > 1
    /\ n > 1 => s.previousGood.size = done[n - 1].size /\ s.previousGood.at = done[n - 1].at
    /\ n = 0 => s.bytesAdded = s.bytesRemoved
    /\ n > 0 => s.bytesAdded - s.bytesRemoved = s.good.size - done[1].size
    /\ s.attempt.success =>
         /\ n > 0 /\ s.good.at = s.attempt.at /\ s.published.size = s.good.size
         /\ s.attempt.present /\ ~s.attempt.partial
    /\ ~partials =>
         /\ s.published.has => n > 0
         /\ n > 0 => s.published.size = s.good.size

Blank(p) == state[p] = NewTargetState /\ completed[p] = <<>> /\ p \notin kept

IInv ==
    /\ TypeOK
    /\ \A p \in Path : Agrees(state[p], completed[p], publishPartial)
    /\ \A p \in Path \ tracked : Blank(p)
    /\ InProgressExact

USE ConstantsAssumption

\* A target never scanned agrees with an empty history.
LEMMA BlankAgrees == NewTargetState \in TargetState /\ Agrees(NewTargetState, <<>>, publishPartial)
  BY DEF NewTargetState, NoScan, TargetState, Remembered, Status, Agrees

\* What a completed scan appends to the history, and what it leaves alone.
LEMMA Appended ==
  ASSUME NEW done \in Seq(Scan), NEW n \in Sizes, NEW t \in Nat
  PROVE  LET more == Append(done, [size |-> n, at |-> t])  len == Len(done) IN
         /\ more \in Seq(Scan)
         /\ Len(more) = len + 1
         /\ more[len + 1].size = n /\ more[len + 1].at = t
         /\ \A i \in 1 .. len : more[i] = done[i]
  BY DEF Scan

\* The growth counters and the delta's baseline after one more completed scan.
LEMMA GrowthTyped ==
  ASSUME NEW s \in TargetState, NEW n \in Nat
  PROVE  Grew(s, n) \in Nat /\ Shrank(s, n) \in Nat /\ Previous(s) \in Remembered
  BY DEF Grew, Shrank, Previous, HasBaseline, Baseline, Positive, TargetState, Remembered

\* Apply keeps the type of a target's state.
LEMMA FoldTyped ==
  ASSUME TypeOK, NEW s \in TargetState, NEW outcome \in Outcomes, NEW n \in Sizes
  PROVE  Fold(s, outcome, n) \in TargetState
<1> now \in Nat /\ n \in Nat
  BY DEF TypeOK
<1>1. Attempt(s, outcome) \in Status
  BY DEF Attempt, Status, Succeeded
<1>2. CASE outcome = "cancelled"
  BY <1>2 DEF Fold, TargetState
<1>3. CASE outcome = "complete"
  <2>1. [has |-> TRUE, size |-> n, at |-> now] \in Remembered
    BY DEF Remembered
  <2> QED
    BY <1>1, <1>3, <2>1, GrowthTyped DEF Fold, TargetState
<1>4. CASE outcome \notin {"cancelled", "complete"}
  BY <1>1, <1>4 DEF Fold, TargetState
<1> QED
  BY <1>2, <1>3, <1>4

\* Raising or clearing the in-progress flag changes nothing else.
LEMMA FlagAgrees ==
  ASSUME NEW s \in TargetState, NEW done \in Seq(Scan), Agrees(s, done, publishPartial), NEW flag \in BOOLEAN
  PROVE  LET f == [s EXCEPT !.scanning = flag] IN
         f \in TargetState /\ Agrees(f, done, publishPartial) /\ f.scanning = flag
<1> DEFINE f == [s EXCEPT !.scanning = flag]
<1>1. f \in TargetState /\ f.scanning = flag
  BY DEF TargetState
<1>2. /\ f.good = s.good /\ f.previousGood = s.previousGood
      /\ f.published = s.published /\ f.attempt = s.attempt
      /\ f.bytesAdded = s.bytesAdded /\ f.bytesRemoved = s.bytesRemoved
  BY DEF TargetState
<1> HIDE DEF f
<1>3. Agrees(f, done, publishPartial)
  BY <1>2 DEF Agrees
<1> QED
  BY <1>1, <1>3 DEF f

\* A scan that is not complete leaves the history as it was and agrees with it.
LEMMA FoldIncomplete ==
  ASSUME TypeOK, NEW s \in TargetState, NEW done \in Seq(Scan), Agrees(s, done, publishPartial),
         NEW outcome \in Outcomes \ {"complete"}, NEW n \in Sizes
  PROVE  Agrees(Fold(s, outcome, n), done, publishPartial)
<1>1. CASE outcome = "cancelled"
  <2>1. Fold(s, outcome, n) = [s EXCEPT !.scanning = FALSE]
    BY <1>1 DEF Fold
  <2> QED
    BY <2>1, FlagAgrees
<1>2. CASE outcome # "cancelled"
  <2> DEFINE f == Fold(s, outcome, n)
  <2>1. /\ f.good = s.good /\ f.previousGood = s.previousGood
        /\ f.bytesAdded = s.bytesAdded /\ f.bytesRemoved = s.bytesRemoved
        /\ ~f.attempt.success
        /\ ~publishPartial => f.published = s.published
        /\ s.published.has => f.published.has
    BY <1>2 DEF Fold, Publishable, Attempt, Succeeded, TargetState
  <2> HIDE DEF f
  <2>2. Agrees(f, done, publishPartial)
    BY <2>1 DEF Agrees
  <2> QED
    BY <2>2 DEF f
<1> QED
  BY <1>1, <1>2

\* A completed scan is appended to the history, and the state agrees with that.
LEMMA FoldComplete ==
  ASSUME TypeOK, NEW s \in TargetState, NEW done \in Seq(Scan), Agrees(s, done, publishPartial),
         NEW n \in Sizes
  PROVE  Agrees(Fold(s, "complete", n), Append(done, [size |-> n, at |-> now]), publishPartial)
<1> DEFINE f    == Fold(s, "complete", n)
           more == Append(done, [size |-> n, at |-> now])
           len  == Len(done)
<1>1. len \in Nat /\ now \in Nat /\ n \in Nat
  BY DEF TypeOK
<1>2. /\ Len(more) = len + 1
      /\ more[len + 1].size = n /\ more[len + 1].at = now
      /\ \A i \in 1 .. len : more[i] = done[i]
  BY <1>1, Appended
<1>3. /\ f.good.has /\ f.good.size = n /\ f.good.at = now
      /\ f.published.has /\ f.published.size = n
      /\ f.attempt.success /\ f.attempt.at = now /\ f.attempt.present /\ ~f.attempt.partial
      /\ f.previousGood = Previous(s)
      /\ f.bytesAdded = Grew(s, n) /\ f.bytesRemoved = Shrank(s, n)
  BY DEF Fold, Attempt, Succeeded
<1>4. /\ s.good.has \in BOOLEAN /\ s.previousGood.has \in BOOLEAN
      /\ s.good.size \in Nat /\ s.bytesAdded \in Nat /\ s.bytesRemoved \in Nat
  BY DEF TargetState, Remembered
<1> HIDE DEF f, more
<1>5. CASE len = 0
  <2>1. ~s.good.has /\ ~s.previousGood.has /\ s.bytesAdded = s.bytesRemoved
    BY <1>5, <1>4 DEF Agrees
  <2>2. f.previousGood = s.previousGood /\ f.bytesAdded = f.bytesRemoved
    BY <2>1, <1>3 DEF Previous, Grew, Shrank, HasBaseline
  <2>3. ~f.previousGood.has /\ Len(more) = 1 /\ more[1].size = n /\ more[1].at = now
    BY <1>2, <1>5, <2>1, <2>2
  <2>4. f.bytesAdded - f.bytesRemoved = f.good.size - more[1].size
    BY <1>1, <1>3, <1>4, <2>1, <2>2, <2>3 DEF Grew, Shrank, HasBaseline
  <2>5. Agrees(f, more, publishPartial)
    BY <1>3, <2>3, <2>4 DEF Agrees
  <2> QED
    BY <2>5 DEF f, more
<1>6. CASE len > 0
  <2>1. /\ s.good.has /\ s.good.size = done[len].size /\ s.good.at = done[len].at
        /\ s.bytesAdded - s.bytesRemoved = s.good.size - done[1].size
    BY <1>1, <1>6 DEF Agrees
  <2>2. /\ f.previousGood.has /\ f.previousGood.size = s.good.size
        /\ f.previousGood.at = s.good.at
    BY <1>3, <2>1 DEF Previous, HasBaseline, Baseline
  <2>3. f.bytesAdded - f.bytesRemoved = s.bytesAdded - s.bytesRemoved + n - s.good.size
    BY <1>1, <1>3, <1>4, <2>1 DEF Grew, Shrank, HasBaseline, Baseline, Positive
  <2>4. more[1] = done[1] /\ more[len] = done[len]
    BY <1>1, <1>2, <1>6
  <2>5. done[1].size \in Nat
    <3>1. done[1] \in Scan
      BY <1>1, <1>6
    <3> QED
      BY <3>1 DEF Scan
  <2>6. f.bytesAdded - f.bytesRemoved = f.good.size - more[1].size
    BY <1>1, <1>3, <1>4, <2>1, <2>3, <2>4, <2>5
  <2>7. /\ Len(more) > 1 /\ Len(more) - 1 = len
        /\ more[Len(more)].size = n /\ more[Len(more)].at = now
        /\ more[Len(more) - 1].size = s.good.size /\ more[Len(more) - 1].at = s.good.at
    BY <1>1, <1>2, <1>6, <2>1, <2>4
  <2> HIDE DEF len
  <2>8. Agrees(f, more, publishPartial)
    BY <1>1, <1>2, <1>3, <2>2, <2>6, <2>7 DEF Agrees
  <2> QED
    BY <2>8 DEF f, more
<1> QED
  BY <1>1, <1>5, <1>6

LEMMA InitIInv == Init => IInv
<1> SUFFICES ASSUME Init PROVE IInv
  OBVIOUS
<1>1. TypeOK
  <2>1. <<>> \in Seq(Scan) /\ 0 \in Nat /\ 1 \in Nat
    OBVIOUS
  <2>2. /\ state \in [Path -> TargetState]
        /\ completed \in [Path -> Seq(Scan)]
        /\ publishedAt \in [Path -> Nat]
    BY <2>1, BlankAgrees DEF Init
  <2> QED
    BY <2>1, <2>2 DEF Init, TypeOK
<1>2. \A p \in Path : Agrees(state[p], completed[p], publishPartial)
  BY BlankAgrees DEF Init
<1>3. (\A p \in Path \ tracked : Blank(p)) /\ InProgressExact
  BY DEF Init, Blank, InProgressExact, NewTargetState
<1> QED
  BY <1>1, <1>2, <1>3 DEF IInv

\* A path outside a tracked set starts blank, a survivor keeps what it had.
LEMMA SetTargetsStep ==
  ASSUME IInv, NEW paths \in SUBSET Path, SetTargets(paths)
  PROVE  IInv'
<1> USE DEF IInv
<1>1. \A p \in Path : \/ state'[p] = state[p] /\ completed'[p] = completed[p]
                      \/ state'[p] = NewTargetState /\ completed'[p] = <<>>
  BY DEF SetTargets, Survivor, TypeOK
<1>2. TypeOK'
  <2>1. state' \in [Path -> TargetState]
    BY BlankAgrees DEF SetTargets, Survivor, TypeOK
  <2>2. completed' \in [Path -> Seq(Scan)]
    BY DEF SetTargets, TypeOK
  <2>3. publishedAt' \in [Path -> Nat]
    BY DEF SetTargets, TypeOK
  <2> QED
    BY <2>1, <2>2, <2>3 DEF SetTargets, TypeOK, engine
<1>3. \A p \in Path : Agrees(state'[p], completed'[p], publishPartial)
  BY <1>1, BlankAgrees
<1>4. \A p \in Path \ tracked' : Blank(p)'
  BY DEF SetTargets, Survivor, Blank
<1>5. publishPartial' = publishPartial
  BY DEF SetTargets, engine
<1>6. InProgressExact'
  <2> SUFFICES ASSUME NEW p \in Path PROVE state'[p].scanning <=> p \in kept'
    BY DEF InProgressExact
  <2>1. CASE p \in paths \cap tracked
    BY <2>1 DEF SetTargets, Survivor, InProgressExact
  <2>2. CASE p \notin paths
    BY <2>2 DEF SetTargets, Survivor, NewTargetState
  <2>3. CASE p \notin tracked
    BY <2>3 DEF SetTargets, Survivor, NewTargetState, Blank
  <2> QED
    BY <2>1, <2>2, <2>3
<1> QED
  BY <1>2, <1>3, <1>4, <1>5, <1>6

LEMMA MarkScanStartedStep ==
  ASSUME IInv, NEW p \in Path, MarkScanStarted(p)
  PROVE  IInv'
<1> USE DEF IInv
<1>1. CASE p \in tracked
  <2> DEFINE s == [state[p] EXCEPT !.scanning = TRUE]
  <2>1. s \in TargetState /\ Agrees(s, completed[p], publishPartial) /\ s.scanning
    BY FlagAgrees DEF TypeOK
  <2>2. state' = [state EXCEPT ![p] = s]
    BY <1>1 DEF MarkScanStarted
  <2> HIDE DEF s
  <2>3. TypeOK'
    BY <1>1, <2>1, <2>2 DEF MarkScanStarted, TypeOK
  <2>4. \A q \in Path : Agrees(state'[q], completed'[q], publishPartial)
    BY <2>1, <2>2 DEF MarkScanStarted, TypeOK
  <2>5. \A q \in Path \ tracked' : Blank(q)'
    BY <1>1, <2>2 DEF MarkScanStarted, TypeOK, Blank
  <2>6. InProgressExact'
    BY <1>1, <2>1, <2>2 DEF MarkScanStarted, TypeOK, InProgressExact
  <2>7. publishPartial' = publishPartial
    BY DEF MarkScanStarted
  <2> QED
    BY <2>3, <2>4, <2>5, <2>6, <2>7
<1>2. CASE p \notin tracked
  BY <1>2 DEF MarkScanStarted, TypeOK, Blank, InProgressExact
<1> QED
  BY <1>1, <1>2

LEMMA ApplyStep ==
  ASSUME IInv, NEW p \in Path, NEW o \in Outcomes, NEW n \in Sizes, Apply(p, o, n)
  PROVE  IInv'
<1> USE DEF IInv
<1>1. CASE p \in tracked
  <2> DEFINE s == Fold(state[p], o, n)
             done == IF o = "complete" THEN Append(completed[p], [size |-> n, at |-> now])
                     ELSE completed[p]
  <2>1. s \in TargetState
    BY FoldTyped DEF TypeOK
  <2>2. done \in Seq(Scan)
    BY Appended DEF TypeOK
  <2>3. Agrees(s, done, publishPartial)
    <3>1. state[p] \in TargetState /\ completed[p] \in Seq(Scan)
      BY DEF TypeOK
    <3> QED
      BY <3>1, FoldComplete, FoldIncomplete
  <2>4. ~s.scanning
    BY DEF Fold, TypeOK, TargetState, Outcomes
  <2>5. /\ state' = [state EXCEPT ![p] = s]
        /\ completed' = [completed EXCEPT ![p] = done]
        /\ publishedAt' \in [Path -> Nat]
    BY <1>1 DEF Apply, TypeOK
  <2> HIDE DEF s, done
  <2>6. TypeOK'
    BY <2>1, <2>2, <2>5 DEF Apply, TypeOK
  <2>7. \A q \in Path : Agrees(state'[q], completed'[q], publishPartial)
    BY <2>3, <2>5 DEF TypeOK
  <2>8. \A q \in Path \ tracked' : Blank(q)'
    BY <1>1, <2>5 DEF Apply, TypeOK, Blank
  <2>9. InProgressExact'
    BY <2>4, <2>5 DEF Apply, TypeOK, InProgressExact
  <2>10. publishPartial' = publishPartial
    BY DEF Apply
  <2> QED
    BY <2>6, <2>7, <2>8, <2>9, <2>10
<1>2. CASE p \notin tracked
  <2>1. /\ UNCHANGED <<publishPartial, now, tracked, state, queued, cycles, cancelled, completed, publishedAt>>
        /\ walking' = walking \ {p} /\ kept' = kept /\ p \notin kept
    BY <1>2 DEF Apply, Blank
  <2> QED
    BY <2>1 DEF TypeOK, Blank, InProgressExact
<1> QED
  BY <1>1, <1>2

LEMMA StepIInv == IInv /\ [Next]_vars => IInv'
<1> SUFFICES ASSUME IInv, [Next]_vars PROVE IInv'
  OBVIOUS
<1>1. ASSUME NEW paths \in SUBSET Path, SetTargets(paths) PROVE IInv'
  BY <1>1, SetTargetsStep
<1> queued \subseteq Path /\ walking \subseteq Path
  BY DEF IInv, TypeOK
<1>2. ASSUME NEW p \in queued, MarkScanStarted(p) PROVE IInv'
  BY <1>2, MarkScanStartedStep
<1>3. ASSUME NEW p \in walking, NEW o \in Outcomes, NEW n \in Sizes, Apply(p, o, n) PROVE IInv'
  BY <1>3, ApplyStep
<1>4. CASE StartCycle
  BY <1>4 DEF StartCycle, history, IInv, TypeOK, Blank, InProgressExact
<1>5. CASE Shutdown
  BY <1>5 DEF Shutdown, history, IInv, TypeOK, Blank, InProgressExact
<1>6. CASE Tick
  BY <1>6 DEF Tick, engine, history, IInv, TypeOK, Blank, InProgressExact
<1>7. CASE UNCHANGED vars
  BY <1>7 DEF vars, engine, history, IInv, TypeOK, Blank, InProgressExact
<1> QED
  BY <1>1, <1>2, <1>3, <1>4, <1>5, <1>6, <1>7 DEF Next

-------------------------------------------------------------------------------
\* The invariant holds in every reachable state.
LEMMA Invariance == Spec => []IInv
  BY InitIInv, StepIInv, PTL DEF Spec

\* Every variable keeps its type; in particular neither growth counter is ever
\* decremented below zero by a shrinking directory.
THEOREM TypeCorrect == Spec => []TypeOK
<1>1. IInv => TypeOK
  BY DEF IInv
<1> QED
  BY <1>1, Invariance, PTL

\* The growth counters telescope over the completed scans, for every sequence of
\* outcomes, reloads and shutdowns and whatever the options.
THEOREM GrowthIsTelescoping == Spec => []GrowthTelescopes
<1>1. IInv => GrowthTelescopes
  <2> SUFFICES ASSUME IInv, NEW p \in tracked
               PROVE  LET s == state[p]  done == completed[p] IN
                      s.bytesAdded - s.bytesRemoved =
                        IF done = <<>> THEN 0 ELSE done[Len(done)].size - done[1].size
    BY DEF GrowthTelescopes
  <2> DEFINE s == state[p]
             done == completed[p]
  <2>1. /\ Agrees(s, done, publishPartial) /\ done \in Seq(Scan)
        /\ s.bytesAdded \in Nat /\ s.bytesRemoved \in Nat
    BY DEF IInv, TypeOK, TargetState
  <2>2. done = <<>> <=> Len(done) = 0
    BY <2>1
  <2> HIDE DEF s, done
  <2>3. Len(done) \in Nat
    BY <2>1
  <2>4. s.bytesAdded - s.bytesRemoved =
          IF done = <<>> THEN 0 ELSE done[Len(done)].size - done[1].size
    BY <2>1, <2>2, <2>3 DEF Agrees
  <2> QED
    BY <2>4 DEF s, done
<1> QED
  BY <1>1, Invariance, PTL

\* The delta and its interval are always those of the last two completed scans.
THEOREM DeltaIsOfCompletedScans == Spec => []DeltaSpansCompletedScans
<1>1. IInv => DeltaSpansCompletedScans
  <2> SUFFICES ASSUME IInv, NEW p \in Path, DeltaShown(p)
               PROVE  LET done == completed[p]  n == Len(done) IN
                      /\ n >= 2
                      /\ DeltaBytes(p) = done[n].size - done[n - 1].size
                      /\ DeltaInterval(p) = done[n].at - done[n - 1].at
    BY DEF DeltaSpansCompletedScans
  <2> DEFINE s == state[p]
             done == completed[p]
  <2>1. Agrees(s, done, publishPartial) /\ Len(done) \in Nat
    BY DEF IInv, TypeOK
  <2>2. s.previousGood.has
    BY DEF DeltaShown
  <2>3. /\ DeltaBytes(p) = s.good.size - s.previousGood.size
        /\ DeltaInterval(p) = s.good.at - s.previousGood.at
    BY DEF DeltaBytes, DeltaInterval
  <2> HIDE DEF s, done
  <2>4. /\ Len(done) >= 2
        /\ s.good.size = done[Len(done)].size /\ s.good.at = done[Len(done)].at
        /\ s.previousGood.size = done[Len(done) - 1].size
        /\ s.previousGood.at = done[Len(done) - 1].at
    BY <2>1, <2>2 DEF Agrees
  <2> QED
    BY <2>3, <2>4 DEF done
<1> QED
  BY <1>1, Invariance, PTL

\* A success status always belongs to the size that is shown.
THEOREM SuccessIsCurrent == Spec => []SuccessMeansCurrent
<1>1. IInv => SuccessMeansCurrent
  <2> SUFFICES ASSUME IInv, NEW p \in tracked, state[p].attempt.success
               PROVE  LET s == state[p]  done == completed[p]  n == Len(done) IN
                      /\ n > 0 /\ done[n].at = s.attempt.at
                      /\ s.published.size = done[n].size
                      /\ s.attempt.present /\ ~s.attempt.partial
    BY DEF SuccessMeansCurrent
  <2> DEFINE s == state[p]
             done == completed[p]
  <2>1. Agrees(s, done, publishPartial) /\ s.attempt.success
    BY DEF IInv, TypeOK
  <2> HIDE DEF s, done
  <2>2. /\ Len(done) > 0 /\ done[Len(done)].at = s.attempt.at
        /\ s.published.size = done[Len(done)].size
        /\ s.attempt.present /\ ~s.attempt.partial
    BY <2>1 DEF Agrees
  <2> QED
    BY <2>2 DEF s, done
<1> QED
  BY <1>1, Invariance, PTL

\* Without publish-partial, what is shown is the last completed scan, and it is
\* shown exactly as long as it is fresh.
THEOREM ShownWhileFresh == Spec => []ShownIffFresh
<1>1. IInv => ShownIffFresh
  <2> SUFFICES ASSUME IInv, ~publishPartial, NEW p \in tracked
               PROVE  LET done == completed[p]  n == Len(done) IN
                      /\ SizeShown(p) <=>
                           n > 0 /\ (StaleAfter = 0 \/ now - done[n].at <= StaleAfter)
                      /\ SizeShown(p) => state[p].published.size = done[n].size
    BY DEF ShownIffFresh
  <2> DEFINE s == state[p]
             done == completed[p]
  <2>1. Agrees(s, done, publishPartial)
    BY DEF IInv, TypeOK
  <2>2. SizeShown(p) <=> s.published.has /\ (s.good.has => Fresh(s))
    BY DEF SizeShown
  <2> HIDE DEF s, done
  <2>3. CASE Len(done) > 0
    <3>1. Fresh(s) <=> (StaleAfter = 0 \/ now - done[Len(done)].at <= StaleAfter)
      BY <2>1, <2>3 DEF Agrees, Fresh
    <3>2. s.published.has /\ s.good.has /\ s.published.size = done[Len(done)].size
      BY <2>1, <2>3 DEF Agrees
    <3> QED
      BY <2>2, <2>3, <3>1, <3>2 DEF s, done
  <2>4. CASE ~(Len(done) > 0)
    <3>1. ~s.published.has
      BY <2>1, <2>4 DEF Agrees
    <3> QED
      BY <2>2, <2>4, <3>1 DEF s, done
  <2> QED
    BY <2>3, <2>4
<1> QED
  BY <1>1, Invariance, PTL

\* The in-progress flag is exact with respect to uninterrupted tracking.
THEOREM InProgressIsExact == Spec => []InProgressExact
<1>1. IInv => InProgressExact
  BY DEF IInv
<1> QED
  BY <1>1, Invariance, PTL

\* What a step may do to the state and history of a target that stays tracked.
LEMMA TrackedStep ==
  ASSUME IInv, [Next]_vars, NEW p \in tracked, p \in tracked'
  PROVE  \/ state'[p] = state[p] /\ completed'[p] = completed[p]
         \/ \E flag \in BOOLEAN : /\ state'[p] = [state[p] EXCEPT !.scanning = flag]
                                  /\ completed'[p] = completed[p]
         \/ \E o \in Outcomes, n \in Sizes :
              /\ state'[p] = Fold(state[p], o, n)
              /\ completed'[p] = IF o = "complete"
                                   THEN Append(completed[p], [size |-> n, at |-> now])
                                   ELSE completed[p]
<1> USE DEF IInv, TypeOK
<1>1. CASE \E paths \in SUBSET Path : SetTargets(paths)
  BY <1>1 DEF SetTargets, Survivor
<1>2. CASE \E q \in queued : MarkScanStarted(q)
  BY <1>2 DEF MarkScanStarted
<1>3. ASSUME NEW q \in walking, NEW o \in Outcomes, NEW n \in Sizes, Apply(q, o, n)
      PROVE  \/ state'[p] = state[p] /\ completed'[p] = completed[p]
             \/ /\ state'[p] = Fold(state[p], o, n)
                /\ completed'[p] = IF o = "complete"
                                     THEN Append(completed[p], [size |-> n, at |-> now])
                                     ELSE completed[p]
  <2>1. CASE q = p
    BY <1>3, <2>1 DEF Apply
  <2>2. CASE q # p
    BY <1>3, <2>2 DEF Apply
  <2> QED
    BY <2>1, <2>2
<1>4. CASE StartCycle \/ Shutdown \/ Tick \/ UNCHANGED vars
  BY <1>4 DEF StartCycle, Shutdown, Tick, vars, engine, history
<1> QED
  BY <1>1, <1>2, <1>3, <1>4 DEF Next

\* The governing rule of the retention table: only a completed scan moves the
\* measurement, the delta or a growth counter.
THEOREM OnlyCompleteScansMove == Spec => OnlyCompleteMoves
<1>1. IInv /\ [Next]_vars =>
        \A p \in tracked \cap tracked' :
          \/ Len(completed'[p]) > Len(completed[p])
          \/ /\ publishPartial \/ state'[p].published = state[p].published
             /\ state'[p].bytesAdded = state[p].bytesAdded
             /\ state'[p].bytesRemoved = state[p].bytesRemoved
             /\ state'[p].previousGood = state[p].previousGood
  <2> SUFFICES ASSUME IInv, [Next]_vars, NEW p \in tracked, p \in tracked'
               PROVE  \/ Len(completed'[p]) > Len(completed[p])
                      \/ /\ publishPartial \/ state'[p].published = state[p].published
                         /\ state'[p].bytesAdded = state[p].bytesAdded
                         /\ state'[p].bytesRemoved = state[p].bytesRemoved
                         /\ state'[p].previousGood = state[p].previousGood
    OBVIOUS
  <2>1. state[p] \in TargetState /\ completed[p] \in Seq(Scan) /\ now \in Nat
    BY DEF IInv, TypeOK
  <2>2. CASE state'[p] = state[p]
    BY <2>2
  <2>3. CASE \E flag \in BOOLEAN : state'[p] = [state[p] EXCEPT !.scanning = flag]
    BY <2>1, <2>3 DEF TargetState
  <2>4. ASSUME NEW o \in Outcomes, NEW n \in Sizes, o # "complete",
               state'[p] = Fold(state[p], o, n)
        PROVE  /\ publishPartial \/ state'[p].published = state[p].published
               /\ state'[p].bytesAdded = state[p].bytesAdded
               /\ state'[p].bytesRemoved = state[p].bytesRemoved
               /\ state'[p].previousGood = state[p].previousGood
    BY <2>1, <2>4 DEF Fold, Publishable, TargetState
  <2>5. ASSUME NEW n \in Sizes,
               completed'[p] = Append(completed[p], [size |-> n, at |-> now])
        PROVE  Len(completed'[p]) > Len(completed[p])
    BY <2>1, <2>5, Appended
  <2> QED
    BY <2>2, <2>3, <2>4, <2>5, TrackedStep
<1> QED
  BY <1>1, Invariance, PTL DEF Spec, OnlyCompleteMoves

\* The growth series of a tracked target, once there, stays.
THEOREM GrowthSeriesAreStable == Spec => GrowthSeriesStays
<1>1. IInv /\ [Next]_vars =>
        \A p \in tracked \cap tracked' : GrowthShown(p) => GrowthShown(p)'
  <2> SUFFICES ASSUME IInv, [Next]_vars, NEW p \in tracked, p \in tracked', state[p].good.has
               PROVE  state'[p].good.has
    BY DEF GrowthShown
  <2>1. state[p] \in TargetState
    BY DEF IInv, TypeOK
  <2>2. ASSUME NEW flag \in BOOLEAN, state'[p] = [state[p] EXCEPT !.scanning = flag]
        PROVE  state'[p].good.has
    BY <2>1, <2>2 DEF TargetState
  <2>3. ASSUME NEW o \in Outcomes, NEW n \in Sizes, state'[p] = Fold(state[p], o, n)
        PROVE  state'[p].good.has
    BY <2>1, <2>3 DEF Fold, TargetState
  <2> QED
    BY <2>2, <2>3, TrackedStep
<1> QED
  BY <1>1, Invariance, PTL DEF Spec, GrowthSeriesStays

-------------------------------------------------------------------------------
(* The store in the program: the calls the engine makes.                   *)

USE FilesAssumption

\* What the running call of ScanAll has come to is what the store was told.
Linked ==
    /\ queued = {p \in asked : ~returned /\ stage[p] = "waiting"}
    /\ walking = {p \in asked : ~returned /\ stage[p] = "walking"}
    /\ \A p \in Path : stage[p] = "walking" => p \in asked

Measured ==
    /\ asked \in SUBSET Path /\ returned \in BOOLEAN
    /\ stage \in [Path -> {"waiting", "walking", "reported"}]
    /\ verdict \in [Path -> Outcomes \cup {"none"}]
    /\ measured \in [Path -> SUBSET File]
    /\ \A p \in Path : measured[p] \subseteq Files[p]

\* The baseline of a target is its last complete report.
LastReported ==
    /\ last \in [Path -> [counted : SUBSET File, left : SUBSET File, at : Nat]]
    /\ \A p \in Path : state[p].good.has =>
         /\ state[p].good.size = Size[last[p].counted] /\ state[p].good.at = last[p].at
         /\ last[p].left \subseteq last[p].counted /\ last[p].counted \subseteq Files[p]

PipelineInv == IInv /\ Linked /\ Measured /\ LastReported

LEMMA PipelineInvInit == PipelineInit => PipelineInv
<1> SUFFICES ASSUME PipelineInit PROVE PipelineInv
  OBVIOUS
<1>1. IInv
  BY InitIInv DEF PipelineInit
<1>2. Linked /\ Measured
  BY DEF PipelineInit, Init, Each, Linked, Measured
<1>3. LastReported
  BY DEF PipelineInit, Init, Each, LastReported, Nothing, NewTargetState, NoScan
<1> QED
  BY <1>1, <1>2, <1>3 DEF PipelineInv

\* Each call of the engine is one the store is written for, and the store sees
\* nothing of what the engine does between them.
LEMMA StepIsServed ==
  ASSUME PipelineInv, [PipelineNext]_pipeline
  PROVE  [Next]_vars
<1>1. Linked /\ Measured /\ TypeOK
  BY DEF PipelineInv, IInv
<1>2. CASE Begin
  <2>1. queued = {} /\ walking = {}
    BY <1>1, <1>2 DEF Begin, SingleFlight, Linked
  <2> QED
    BY <1>2, <2>1 DEF Begin, AtRest, Next
<1>3. ASSUME NEW p \in Path, Announce(p) PROVE Next
  <2>1. p \in queued
    BY <1>1, <1>3 DEF Announce, Walk!Announce, Linked
  <2> QED
    BY <1>3, <2>1 DEF Announce, Next
<1>4. ASSUME NEW p \in Path, Report(p) PROVE Next
  <2> DEFINE size == Size[measured[p]]
  <2>1. PICK o \in Outcomes : Walk!Means(p, o) /\ verdict' = [verdict EXCEPT ![p] = o]
    BY <1>4 DEF Report, Walk!Report, Walk!Outcomes, Outcomes
  <2>2. p \in walking /\ verdict'[p] = o
    BY <1>1, <1>4, <2>1 DEF Report, Walk!Report, Linked, Measured
  <2>3. size \in Sizes /\ Admissible(o, size)
    BY <1>1, <2>1 DEF Measured, Walk!Means, Admissible
  <2>4. Apply(p, o, size)
    BY <1>4, <2>2 DEF Report
  <2> HIDE DEF size
  <2> QED
    BY <2>2, <2>3, <2>4 DEF Next
<1>5. CASE Stop \/ Later
  BY <1>5 DEF Stop, Later, Next
<1>6. ASSUME NEW paths \in SUBSET Path, Reload(paths) PROVE Next
  BY <1>6 DEF Reload, Next
<1>7. CASE Return \/ Remove \/ \E p \in Path : Count(p)
  BY <1>7 DEF Return, Remove, Count
<1>8. CASE UNCHANGED pipeline
  BY <1>8 DEF pipeline
<1> QED
  BY <1>2, <1>3, <1>4, <1>5, <1>6, <1>7, <1>8 DEF PipelineNext

\* The steps of the store that leave the walks and the baselines alone.
LEMMA LinkedStep ==
  ASSUME PipelineInv, [PipelineNext]_pipeline
  PROVE  Linked'
<1>1. Linked /\ Measured /\ TypeOK
  BY DEF PipelineInv, IInv
<1>2. CASE Begin
  BY <1>1, <1>2 DEF Begin, StartCycle, SingleFlight, Each, Linked, TypeOK
<1>3. ASSUME NEW p \in Path, Announce(p) PROVE Linked'
  BY <1>1, <1>3 DEF Announce, Walk!Announce, MarkScanStarted, Linked, Measured
<1>4. ASSUME NEW p \in Path, Report(p) PROVE Linked'
  BY <1>1, <1>4 DEF Report, Walk!Report, Apply, Linked, Measured
<1>5. CASE Return
  BY <1>1, <1>5 DEF Return, Walk!Return, vars, engine, Linked, Measured
<1>6. CASE Stop \/ Later \/ Remove \/ \E p \in Path : Count(p)
  BY <1>1, <1>6 DEF Stop, Walk!Shutdown, Shutdown, Later, Tick, Remove, Walk!Remove, Count,
     Walk!Count, vars, engineVars, engine, Linked
<1>7. ASSUME NEW paths \in SUBSET Path, Reload(paths) PROVE Linked'
  BY <1>1, <1>7 DEF Reload, SetTargets, engineVars, engine, Linked
<1>8. CASE UNCHANGED pipeline
  BY <1>1, <1>8 DEF pipeline, vars, engineVars, engine, Linked
<1> QED
  BY <1>2, <1>3, <1>4, <1>5, <1>6, <1>7, <1>8 DEF PipelineNext

LEMMA MeasuredStep ==
  ASSUME PipelineInv, [PipelineNext]_pipeline
  PROVE  Measured'
<1>1. Linked /\ Measured /\ TypeOK
  BY DEF PipelineInv, IInv
<1>2. CASE Begin
  BY <1>1, <1>2 DEF Begin, Each, Measured, TypeOK
<1>3. ASSUME NEW p \in Path, Announce(p) PROVE Measured'
  BY <1>1, <1>3 DEF Announce, Walk!Announce, Measured
<1>4. ASSUME NEW p \in Path, Count(p) PROVE Measured'
  BY <1>1, <1>4 DEF Count, Walk!Count, Measured
<1>5. ASSUME NEW p \in Path, Report(p) PROVE Measured'
  BY <1>1, <1>5 DEF Report, Walk!Report, Walk!Outcomes, Outcomes, Measured
<1>6. CASE Return \/ Remove \/ Stop \/ Later
  BY <1>1, <1>6 DEF Return, Walk!Return, Remove, Walk!Remove, Stop, Walk!Shutdown, Later,
     engineVars, Measured
<1>7. CASE UNCHANGED engineVars
  BY <1>1, <1>7 DEF engineVars, Measured
<1> QED
  BY <1>2, <1>3, <1>4, <1>5, <1>6, <1>7 DEF PipelineNext, Reload, pipeline

\* A complete report has every file that stayed; the store takes its size as the
\* baseline, and drops it with the target.
LEMMA ReportKept ==
  ASSUME PipelineInv, NEW p \in Path, Report(p)
  PROVE  LastReported'
<1> DEFINE size  == Size[measured[p]]
           entry == [counted |-> measured[p], left |-> Files[p] \cap existing, at |-> now]
<1>1. Linked /\ Measured /\ TypeOK /\ LastReported
  BY DEF PipelineInv, IInv
<1>2. PICK o \in Outcomes : Walk!Means(p, o) /\ verdict' = [verdict EXCEPT ![p] = o]
  BY DEF Report, Walk!Report, Walk!Outcomes, Outcomes
<1>3. verdict'[p] = o /\ Apply(p, o, size)
  BY <1>1, <1>2 DEF Report, Measured
<1>4. CASE p \in tracked /\ o = "complete"
  <2>1. /\ state'[p] = Fold(state[p], o, size)
        /\ \A q \in Path : q # p => state'[q] = state[q]
    BY <1>1, <1>3, <1>4 DEF Apply, TypeOK
  <2>2. state'[p].good.size = size /\ state'[p].good.at = now
    BY <1>4, <2>1 DEF Fold
  <2>3. entry \in [counted : SUBSET File, left : SUBSET File, at : Nat]
    BY <1>1 DEF Measured, TypeOK
  <2>4. entry.left \subseteq entry.counted /\ entry.counted \subseteq Files[p]
    BY <1>1, <1>2, <1>4 DEF Walk!Means, Measured
  <2>5. last' = [last EXCEPT ![p] = entry]
    BY <1>3, <1>4 DEF Report
  <2>6. entry.counted = measured[p] /\ entry.at = now
    OBVIOUS
  <2> HIDE DEF entry
  <2> QED
    BY <1>1, <2>1, <2>2, <2>3, <2>4, <2>5, <2>6 DEF LastReported
<1>5. CASE p \notin tracked
  BY <1>1, <1>3, <1>5 DEF Apply, Report, LastReported
<1>6. CASE p \in tracked /\ o # "complete"
  <2>1. last' = last
    BY <1>3, <1>6 DEF Report
  <2>2. Fold(state[p], o, size).good = state[p].good
    BY <1>1, <1>6 DEF Fold, TypeOK, TargetState
  <2>3. \A q \in Path : state'[q].good = state[q].good
    BY <1>1, <1>3, <1>6, <2>2 DEF Apply, TypeOK
  <2> QED
    BY <1>1, <2>1, <2>3 DEF LastReported
<1> QED
  BY <1>4, <1>5, <1>6

LEMMA LastReportedStep ==
  ASSUME PipelineInv, [PipelineNext]_pipeline
  PROVE  LastReported'
<1>1. LastReported /\ TypeOK
  BY DEF PipelineInv, IInv
<1>2. ASSUME NEW p \in Path, Report(p) PROVE LastReported'
  BY <1>2, ReportKept
<1>3. ASSUME NEW paths \in SUBSET Path, Reload(paths) PROVE LastReported'
  <2>1. \A p \in Path : IF p \in paths \cap tracked
                          THEN state'[p] = state[p] /\ last'[p] = last[p]
                          ELSE state'[p] = NewTargetState /\ last'[p] = Nothing
    BY <1>3 DEF Reload, SetTargets, Survivor
  <2>2. last' \in [Path -> [counted : SUBSET File, left : SUBSET File, at : Nat]]
    BY <1>1, <1>3 DEF Reload, LastReported, Nothing
  <2>3. ~NewTargetState.good.has
    BY DEF NewTargetState, NoScan
  <2> QED
    BY <1>1, <2>1, <2>2, <2>3 DEF LastReported
<1>4. ASSUME NEW p \in Path, Announce(p) PROVE LastReported'
  <2>1. \A q \in Path : \/ state'[q] = state[q]
                        \/ state'[q] = [state[q] EXCEPT !.scanning = TRUE]
    BY <1>1, <1>4 DEF Announce, MarkScanStarted, TypeOK
  <2>2. last' = last /\ \A q \in Path : state'[q].good = state[q].good
    BY <1>1, <1>4, <2>1 DEF Announce, TypeOK, TargetState
  <2> QED
    BY <1>1, <2>2 DEF LastReported
<1>5. CASE \/ Begin \/ Return \/ Remove \/ Stop \/ Later \/ UNCHANGED pipeline
           \/ \E p \in Path : Count(p)
  <2>1. last' = last /\ state' = state
    BY <1>5 DEF Begin, StartCycle, Return, Remove, Stop, Shutdown, Later, Tick, Count, pipeline, vars
  <2> QED
    BY <1>1, <2>1 DEF LastReported
<1> QED
  BY <1>2, <1>3, <1>4, <1>5 DEF PipelineNext

LEMMA PipelineInvariance == PipelineSpec => []PipelineInv
<1>1. PipelineInv /\ [PipelineNext]_pipeline => PipelineInv'
  BY StepIsServed, StepIInv, LinkedStep, MeasuredStep, LastReportedStep DEF PipelineInv
<1> QED
  BY <1>1, PipelineInvInit, PTL DEF PipelineSpec

\* The composition of engine, reloads and store implements Store: every theorem
\* about the store with open results holds in the program.
THEOREM EngineServesTheStore == PipelineSpec => ServesTheStore
<1>1. PipelineInit => Init
  BY DEF PipelineInit
<1>2. PipelineInv /\ [PipelineNext]_pipeline => [Next]_vars
  BY StepIsServed
<1> QED
  BY <1>1, <1>2, PipelineInvariance, PTL DEF PipelineSpec, Spec, ServesTheStore

\* What a scrape shows without publish-partial is the size of a whole tree, as
\* it was at most StaleAfter ago, from the walk of a worker to the series.
THEOREM WhatIsShownIsWhole == PipelineSpec => []ShownIsWhole
<1>1. PipelineInv => ShownIsWhole
  <2> SUFFICES ASSUME PipelineInv, ~publishPartial, NEW p \in tracked, SizeShown(p)
               PROVE  /\ state[p].published.size = Size[last[p].counted]
                      /\ last[p].left \subseteq last[p].counted
                      /\ last[p].counted \subseteq Files[p]
                      /\ StaleAfter = 0 \/ now - last[p].at <= StaleAfter
    BY DEF ShownIsWhole
  <2>1. p \in Path /\ Agrees(state[p], completed[p], publishPartial) /\ LastReported
    BY DEF PipelineInv, IInv, TypeOK
  <2>2. state[p].good.has /\ state[p].published.size = state[p].good.size
    BY <2>1 DEF Agrees, SizeShown
  <2>3. StaleAfter = 0 \/ now - state[p].good.at <= StaleAfter
    BY <2>2 DEF SizeShown, Fresh
  <2> QED
    BY <2>1, <2>2, <2>3 DEF LastReported
<1> QED
  BY <1>1, PipelineInvariance, PTL
===============================================================================
