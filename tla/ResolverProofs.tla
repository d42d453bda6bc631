----------------------------- MODULE ResolverProofs ----------------------------
(***************************************************************************)
(* Theorems about Resolver for every limit, grace period and history.      *)
(*                                                                         *)
(* The invariant says what an entry of vanishedAt is: the time of the      *)
(* first pass that missed the path since a pass last found it, refused     *)
(* passes included.                                                        *)
(***************************************************************************)
EXTENDS Resolver, FiniteSetTheorems, TLAPS

USE DEF pass, Never

\* The times passes have read do not decrease.
Clocked ==
    /\ \A i, j \in 1..Len(log) : i <= j => log[i].at <= log[j].at
    /\ Latest.at <= now
    /\ passAt # Never => Latest.at <= passAt /\ passAt <= now

\* Pass i was the first to miss p since a pass found it.
FirstMissed(p, i) == i \in 2..Len(log) /\ p \in log[i - 1].found /\ MissedFrom(p, i)

\* A path has an entry when it is known and the latest pass missed it.
Entries ==
    /\ \A p \in Path : vanishedAt[p] # Never <=> p \in known \ Latest.found
    /\ \A p \in known \ Latest.found :
         \E i \in 2..Len(log) : FirstMissed(p, i) /\ vanishedAt[p] = log[i].at

\* Those of the missing that are within their grace period at the latest pass.
Recent == {p \in known \ Latest.found : Latest.at - vanishedAt[p] < Retain}

\* Why the latest pass was applied or refused.
Judged ==
    /\ Latest.ok => Latest.found \subseteq known /\ known \ Latest.found \subseteq Recent
    /\ ~Latest.ok => Max > 0 /\ Cardinality(Latest.found \cup Recent) > Max

IInv == TypeOK /\ Clocked /\ Entries /\ Judged /\ LimitHolds

-------------------------------------------------------------------------------
\* Every variable keeps its type.
LEMMA TypeStep == TypeOK /\ [Next]_vars => TypeOK'
<1> SUFFICES ASSUME TypeOK, [Next]_vars PROVE TypeOK'
  OBVIOUS
<1> USE ConstantsAssumption DEF TypeOK
<1>1. CASE Begin
  BY <1>1 DEF Begin
<1>2. CASE Succeed \/ Refuse
  <2>1. PICK ok \in BOOLEAN : Record(ok)
    BY <1>2 DEF Succeed, Refuse
  <2>2. [at |-> passAt, found |-> found, ok |-> ok] \in Pass
    BY <1>2 DEF Succeed, Refuse, Pass
  <2>3. log' \in Seq(Pass) /\ log' # <<>>
    BY <2>1, <2>2 DEF Record
  <2>4. \A p \in Path : Since(p) \in Nat \cup {Never}
    BY <1>2 DEF Succeed, Refuse, Since
  <2>5. vanishedAt' \in [Path -> Nat \cup {Never}]
    BY <1>2, <2>4 DEF Succeed, Refuse, Returned, Noticed
  <2>6. known' \subseteq Path
    BY <1>2 DEF Succeed, Refuse, Retained, Missing
  <2> QED
    BY <1>2, <2>3, <2>5, <2>6 DEF Succeed, Refuse
<1>3. CASE Tick
  BY <1>3 DEF Tick
<1>4. ASSUME NEW p \in Path, Look(p) \/ Vanish(p) \/ Appear(p) PROVE TypeOK'
  BY <1>4 DEF Look, Vanish, Appear
<1>5. CASE UNCHANGED vars
  BY <1>5 DEF vars
<1> QED
  BY <1>1, <1>2, <1>3, <1>4, <1>5 DEF Next

LEMMA TypeInit == Init => TypeOK
<1> SUFFICES ASSUME Init PROVE TypeOK
  OBVIOUS
<1>1. [at |-> 0, found |-> known, ok |-> TRUE] \in Pass
  BY DEF Init, Pass
<1>2. log \in Seq(Pass) /\ log # <<>>
  BY <1>1 DEF Init
<1> QED
  BY <1>2 DEF Init, TypeOK

\* The passes of the history, and the latest of them, have their type.
LEMMA PassTypes ==
  ASSUME TypeOK
  PROVE  /\ Len(log) \in Nat \ {0} /\ Latest = log[Len(log)]
         /\ \A i \in 1..Len(log) : log[i].at \in Nat /\ log[i].found \subseteq Path
         /\ Latest.at \in Nat /\ Latest.found \subseteq Path /\ Latest.ok \in BOOLEAN
<1>1. Len(log) \in Nat \ {0} /\ \A i \in 1..Len(log) : log[i] \in Pass
  BY DEF TypeOK
<1>2. Latest = log[Len(log)] /\ Latest \in Pass
  BY <1>1 DEF Latest
<1> QED
  BY <1>1, <1>2 DEF Pass

\* The end of a pass, applied or refused, adds it to the history.
LEMMA PassRecorded ==
  ASSUME TypeOK, Clocked, Succeed \/ Refuse
  PROVE  /\ passAt \in Nat /\ Len(log) \in Nat \ {0} /\ Len(log') = Len(log) + 1
         /\ \A i \in 1..Len(log) : log'[i] = log[i]
         /\ Latest'.at = passAt /\ Latest'.found = found /\ Latest'.ok = (~OverLimit)
         /\ log'[Len(log')].found = found /\ log'[Len(log')].at = passAt
         /\ Latest.at <= passAt /\ passAt <= now /\ now' = now /\ passAt' = Never
<1>1. /\ passAt \in Nat /\ now' = now /\ passAt' = Never
      /\ log' = Append(log, [at |-> passAt, found |-> found, ok |-> ~OverLimit])
  <2>1. CASE Succeed
    BY <2>1 DEF Succeed, Record, TypeOK
  <2>2. CASE Refuse
    BY <2>2 DEF Refuse, Record, TypeOK
  <2> QED
    BY <2>1, <2>2
<1>2. Len(log) \in Nat \ {0} /\ log \in Seq(Pass)
  BY PassTypes DEF TypeOK
<1>3. /\ Len(log') = Len(log) + 1
      /\ \A i \in 1..Len(log) : log'[i] = log[i]
      /\ log'[Len(log')] = [at |-> passAt, found |-> found, ok |-> ~OverLimit]
  BY <1>1, <1>2
<1>4. Latest' = [at |-> passAt, found |-> found, ok |-> ~OverLimit]
  BY <1>3 DEF Latest
<1>5. Latest.at <= passAt /\ passAt <= now
  BY <1>1 DEF Clocked
<1> QED
  BY <1>1, <1>2, <1>3, <1>4, <1>5

LEMMA ClockedStep == TypeOK /\ Clocked /\ [Next]_vars => Clocked'
<1> SUFFICES ASSUME TypeOK, Clocked, [Next]_vars PROVE Clocked'
  OBVIOUS
<1>1. CASE Succeed \/ Refuse
  <2>1. \A i \in 1..Len(log) : log[i].at <= passAt /\ log[i].at \in Nat
    <3>1. \A i \in 1..Len(log) : log[i] \in Pass
      BY DEF TypeOK
    <3> QED
      BY <1>1, <3>1, PassRecorded DEF Clocked, Latest, Pass
  <2>2. ASSUME NEW i \in 1..Len(log'), NEW j \in 1..Len(log'), i <= j
        PROVE  log'[i].at <= log'[j].at
    <3>1. CASE j = Len(log')
      BY <1>1, <2>1, <3>1, PassRecorded
    <3>2. CASE j # Len(log')
      BY <1>1, <2>2, <3>2, PassRecorded DEF Clocked
    <3> QED
      BY <3>1, <3>2
  <2> QED
    BY <1>1, <2>2, PassRecorded DEF Clocked
<1>2. CASE Begin
  BY <1>2 DEF Begin, Clocked, Latest, TypeOK
<1>3. CASE Tick
  <2>1. Latest.at \in Nat /\ passAt \in Nat \cup {Never}
    BY PassTypes DEF TypeOK
  <2> QED
    BY <1>3, <2>1 DEF Tick, Clocked, Latest, TypeOK
<1>4. ASSUME NEW p \in Path, Look(p) \/ Vanish(p) \/ Appear(p) PROVE Clocked'
  BY <1>4 DEF Look, Vanish, Appear, Clocked, Latest
<1>5. CASE UNCHANGED vars
  BY <1>5 DEF vars, Clocked, Latest
<1> QED
  BY <1>1, <1>2, <1>3, <1>4, <1>5 DEF Next

-------------------------------------------------------------------------------
\* The end of a pass continues or begins the absence of each path it missed.
LEMMA EntriesAtEnd ==
  ASSUME TypeOK, Clocked, Entries, Succeed \/ Refuse
  PROVE  Entries'
<1> DEFINE n == Len(log)
<1>0. /\ n \in Nat \ {0} /\ Len(log') = n + 1 /\ passAt \in Nat
      /\ \A i \in 1..n : log'[i] = log[i]
      /\ log'[n + 1].found = found /\ log'[n + 1].at = passAt
      /\ Latest'.found = found /\ Latest = log[n]
  BY PassRecorded DEF Latest
<1>1. \A p \in Path : vanishedAt'[p] # Never <=> p \in known' \ found
  <2>1. \A p \in Path : Since(p) # Never
    BY <1>0 DEF Since
  <2>2. CASE Succeed
    BY <2>1, <2>2 DEF Succeed, Retained, Missing, Returned, Entries, TypeOK
  <2>3. CASE Refuse
    BY <2>1, <2>3 DEF Refuse, Missing, Returned, Noticed, Entries, TypeOK
  <2> QED
    BY <2>2, <2>3
<1>2. ASSUME NEW p \in known' \ found
      PROVE  \E i \in 2..(n + 1) : FirstMissed(p, i)' /\ vanishedAt'[p] = log'[i].at
  <2>1. p \in known /\ p \in Path /\ vanishedAt'[p] = Since(p)
    BY DEF Succeed, Refuse, Retained, Missing, Noticed, TypeOK
  <2>2. CASE vanishedAt[p] = Never
    <3>1. p \in Latest.found
      BY <2>1, <2>2 DEF Entries
    <3>2. p \in log'[n].found /\ p \notin log'[n + 1].found
      BY <1>0, <3>1
    <3>3. PICK m \in Nat : m = n + 1
      BY <1>0
    <3>4. FirstMissed(p, m)'
      BY <1>0, <3>2, <3>3 DEF FirstMissed, MissedFrom
    <3>5. vanishedAt'[p] = log'[m].at
      BY <1>0, <2>1, <2>2, <3>3 DEF Since
    <3> QED
      BY <1>0, <3>3, <3>4, <3>5
  <2>3. CASE vanishedAt[p] # Never
    <3>1. PICK i \in 2..n : FirstMissed(p, i) /\ vanishedAt[p] = log[i].at
      BY <2>1, <2>3 DEF Entries
    <3>2. FirstMissed(p, i)'
      BY <1>0, <3>1 DEF FirstMissed, MissedFrom
    <3> QED
      BY <1>0, <2>1, <2>3, <3>1, <3>2 DEF Since
  <2> QED
    BY <2>2, <2>3
<1> QED
  BY <1>0, <1>1, <1>2 DEF Entries

\* A pass is applied or refused by what it found and what is within its grace.
LEMMA JudgedAtEnd ==
  ASSUME TypeOK, Clocked, Entries, Succeed \/ Refuse
  PROVE  Judged'
<1>0. /\ passAt \in Nat /\ Latest'.found = found /\ Latest'.at = passAt
      /\ Latest'.ok = (~OverLimit)
  BY PassRecorded
<1>1. CASE Succeed
  <2>1. Latest'.ok /\ found \subseteq known' /\ known' \ found \subseteq Retained
    BY <1>0, <1>1 DEF Succeed
  <2>2. ASSUME NEW p \in known' \ found PROVE p \in Recent'
    <3>1. p \in Retained /\ p \in Path /\ vanishedAt'[p] = Since(p)
      BY <1>1, <2>1 DEF Succeed, Retained, Missing, TypeOK
    <3> QED
      BY <1>0, <3>1 DEF Retained, InGrace, Recent
  <2> QED
    BY <1>0, <2>1, <2>2 DEF Judged
<1>2. CASE Refuse
  <2>1. ~Latest'.ok /\ Max > 0 /\ Cardinality(Counted) > Max /\ known' = known
    BY <1>0, <1>2 DEF Refuse, OverLimit
  <2>2. Recent' = Retained
    <3>1. \A p \in Missing : p \in Path /\ vanishedAt'[p] = Since(p) /\ Since(p) \in Nat
      BY <1>0, <1>2 DEF Refuse, Missing, Noticed, TypeOK, Since
    <3>2. ASSUME NEW p \in Missing
          PROVE  passAt - Since(p) < Retain <=> InGrace(p)
      <4>1. Since(p) <= passAt
        <5>1. CASE vanishedAt[p] = Never
          BY <1>0, <5>1 DEF Since
        <5>2. CASE vanishedAt[p] # Never
          <6>1. p \in known \ Latest.found
            BY <3>1, <5>2 DEF Entries
          <6>2. PICK i \in 2..Len(log) : vanishedAt[p] = log[i].at
            BY <6>1 DEF Entries
          <6>3. log[i].at <= Latest.at /\ Latest.at <= passAt
            BY <1>2, PassRecorded, PassTypes DEF Clocked
          <6>4. log[i].at \in Nat /\ Latest.at \in Nat
            BY PassTypes
          <6> QED
            BY <1>0, <5>2, <6>2, <6>3, <6>4 DEF Since
        <5> QED
          BY <5>1, <5>2
      <4> QED
        BY <1>0, <3>1, <4>1, ConstantsAssumption DEF InGrace
    <3> QED
      BY <1>0, <2>1, <3>1, <3>2 DEF Recent, Retained, Missing
  <2> QED
    BY <1>0, <2>1, <2>2 DEF Judged, Counted
<1> QED
  BY <1>1, <1>2

LEMMA LimitAtEnd ==
  ASSUME TypeOK, LimitHolds, Succeed \/ Refuse
  PROVE  LimitHolds'
<1>1. CASE Succeed
  <2>1. known' = Counted /\ (Max > 0 => ~(Cardinality(Counted) > Max))
    BY <1>1 DEF Succeed, Counted, OverLimit
  <2>2. Cardinality(Counted) \in Nat
    <3>1. Counted \subseteq Path
      BY DEF Counted, Retained, Missing, TypeOK
    <3> QED
      BY <3>1, ConstantsAssumption, FS_Subset, FS_CardinalityType
  <2> QED
    BY <2>1, <2>2, ConstantsAssumption DEF LimitHolds
<1>2. CASE Refuse
  BY <1>2 DEF Refuse, LimitHolds
<1> QED
  BY <1>1, <1>2

LEMMA InitIInv == Init => IInv
<1> SUFFICES ASSUME Init PROVE IInv
  OBVIOUS
<1>1. TypeOK
  BY TypeInit
<1>2. /\ Len(log) = 1 /\ log[1] = [at |-> 0, found |-> known, ok |-> TRUE]
      /\ Latest = [at |-> 0, found |-> known, ok |-> TRUE]
  BY DEF Init, Latest
<1>3. Clocked /\ Entries /\ Judged /\ LimitHolds
  BY <1>2 DEF Init, Clocked, Entries, Judged, LimitHolds
<1> QED
  BY <1>1, <1>3 DEF IInv

LEMMA StepIInv == IInv /\ [Next]_vars => IInv'
<1> SUFFICES ASSUME IInv, [Next]_vars PROVE IInv'
  OBVIOUS
<1>1. TypeOK /\ Clocked /\ Entries /\ Judged /\ LimitHolds
  BY DEF IInv
<1>2. TypeOK' /\ Clocked'
  BY <1>1, TypeStep, ClockedStep
<1>3. CASE Succeed \/ Refuse
  BY <1>1, <1>2, <1>3, EntriesAtEnd, JudgedAtEnd, LimitAtEnd DEF IInv
<1>4. ASSUME UNCHANGED <<known, vanishedAt, log>> PROVE IInv'
  <2>1. UNCHANGED <<Latest, Recent>>
    BY <1>4 DEF Latest, Recent
  <2>2. \A p \in Path, i \in 2..Len(log) : FirstMissed(p, i)' <=> FirstMissed(p, i)
    BY <1>4 DEF FirstMissed, MissedFrom
  <2>3. Entries'
    <3>1. known \subseteq Path
      BY <1>1 DEF TypeOK
    <3> QED
      BY <1>1, <1>4, <2>1, <2>2, <3>1 DEF Entries
  <2> QED
    BY <1>1, <1>2, <1>4, <2>1, <2>3 DEF IInv, Judged, LimitHolds
<1> QED
  BY <1>3, <1>4 DEF Next, Begin, Tick, Look, Vanish, Appear, vars

-------------------------------------------------------------------------------
\* What the passes record keeps its type, whatever the disk does.
THEOREM TypeCorrect == Spec => []TypeOK
BY TypeInit, TypeStep, PTL DEF Spec

\* Retained targets count towards the limit, so it is never exceeded.
THEOREM LimitAlwaysHolds == Spec => []LimitHolds
<1>1. IInv => LimitHolds
  BY DEF IInv
<1> QED
  BY <1>1, InitIInv, StepIInv, PTL DEF Spec

\* After a pass that was applied, each target it missed is within its grace.
THEOREM NothingLingersEver == Spec => []NothingLingers
<1>1. IInv => NothingLingers
  <2> SUFFICES ASSUME IInv, Latest.ok, NEW p \in known \ Latest.found
               PROVE  \E i \in 2..Len(log) :
                        /\ p \in log[i - 1].found /\ MissedFrom(p, i)
                        /\ Latest.at - log[i].at < Retain
    BY DEF NothingLingers
  <2>1. PICK i \in 2..Len(log) : FirstMissed(p, i) /\ vanishedAt[p] = log[i].at
    BY DEF IInv, Entries
  <2>2. Latest.at - vanishedAt[p] < Retain
    BY DEF IInv, Judged, Recent
  <2> QED
    BY <2>1, <2>2 DEF FirstMissed
<1> QED
  BY <1>1, InitIInv, StepIInv, PTL DEF Spec

\* A rotation at the limit makes passes fail only until the grace period of what
\* it removed is over.
THEOREM RefusalsEnd == Spec => []GraceEndsRefusals
<1>1. IInv => GraceEndsRefusals
  <2> SUFFICES ASSUME IInv, NEW i \in 1..Len(log),
                      \A k \in i..Len(log) : log[k].found = Latest.found,
                      Latest.at - log[i].at >= Retain,
                      Max > 0 => Cardinality(Latest.found) <= Max
               PROVE  known = Latest.found
    BY DEF GraceEndsRefusals
  <2>1. TypeOK /\ Clocked /\ Entries /\ Judged
    BY DEF IInv
  <2>2. Recent = {}
    <3>1. SUFFICES ASSUME NEW p \in Recent PROVE FALSE
      OBVIOUS
    <3>2. p \in known \ Latest.found /\ Latest.at - vanishedAt[p] < Retain
      BY <3>1 DEF Recent
    <3>3. PICK j \in 2..Len(log) : FirstMissed(p, j) /\ vanishedAt[p] = log[j].at
      BY <2>1, <3>2 DEF Entries
    <3>4. j - 1 < i
      BY <3>2, <3>3 DEF FirstMissed
    <3>5. log[j].at <= log[i].at
      BY <2>1, <3>4 DEF Clocked
    <3>6. Latest.at \in Nat /\ log[i].at \in Nat /\ log[j].at \in Nat
      BY <2>1, PassTypes
    <3> QED
      BY <3>2, <3>3, <3>5, <3>6, ConstantsAssumption
  <2>3. Latest.ok
    <3>1. SUFFICES ASSUME ~Latest.ok PROVE FALSE
      OBVIOUS
    <3>2. Max > 0 /\ Cardinality(Latest.found) > Max
      BY <2>1, <2>2, <3>1 DEF Judged
    <3>3. Cardinality(Latest.found) \in Nat
      <4>1. Latest.found \subseteq Path
        BY <2>1, PassTypes
      <4> QED
        BY <4>1, ConstantsAssumption, FS_Subset, FS_CardinalityType
    <3> QED
      BY <3>2, <3>3, ConstantsAssumption
  <2> QED
    BY <2>1, <2>2, <2>3 DEF Judged
<1> QED
  BY <1>1, InitIInv, StepIInv, PTL DEF Spec

\* No target is dropped before passes have missed it for the whole grace period.
THEOREM GraceIsRespected == Spec => DropsRespectGrace
<1> DEFINE Respect ==
      \A p \in known \ known' :
          \E i \in 1..Len(log)' : MissedFrom(p, i)' /\ Latest'.at - log'[i].at >= Retain
<1>1. IInv /\ [Next]_vars => Respect
  <2> SUFFICES ASSUME IInv, [Next]_vars, NEW p \in known \ known' PROVE
          \E i \in 1..Len(log)' : MissedFrom(p, i)' /\ Latest'.at - log'[i].at >= Retain
    OBVIOUS
  <2>1. TypeOK /\ Clocked /\ Entries
    BY DEF IInv
  <2>2. Succeed
    BY DEF Next, Begin, Refuse, Tick, Look, Vanish, Appear, vars
  <2>3. /\ Len(log) \in Nat \ {0} /\ Len(log)' = Len(log) + 1 /\ passAt \in Nat
        /\ \A i \in 1..Len(log) : log'[i] = log[i]
        /\ log'[Len(log) + 1].found = found /\ log'[Len(log) + 1].at = passAt
        /\ Latest'.at = passAt
    BY <2>1, <2>2, PassRecorded
  <2>4. p \in Missing /\ p \in Path /\ ~InGrace(p)
    BY <2>1, <2>2 DEF Succeed, Retained, Missing, TypeOK
  <2>5. CASE vanishedAt[p] = Never
    <3> DEFINE n == Len(log)
    <3>0. PICK m \in Nat : m = n + 1
      BY <2>3
    <3>1. MissedFrom(p, m)'
      BY <2>3, <2>4, <3>0 DEF MissedFrom, Missing
    <3>2. Retain = 0 /\ Retain \in Nat
      BY <2>3, <2>4, <2>5, ConstantsAssumption DEF InGrace, Since
    <3>3. m \in 1..Len(log)' /\ Latest'.at - log'[m].at >= Retain
      BY <2>3, <3>0, <3>2
    <3> QED
      BY <3>1, <3>3
  <2>6. CASE vanishedAt[p] # Never
    <3>1. PICK i \in 2..Len(log) : FirstMissed(p, i) /\ vanishedAt[p] = log[i].at
      BY <2>1, <2>4, <2>6 DEF Entries
    <3>2. MissedFrom(p, i)'
      BY <2>3, <2>4, <3>1 DEF MissedFrom, FirstMissed, Missing
    <3>3. log[i].at \in Nat /\ log[i].at <= passAt
      <4>1. log[i].at <= Latest.at /\ Latest.at <= passAt
        BY <2>1, <2>2, PassRecorded, PassTypes DEF Clocked
      <4>2. log[i].at \in Nat /\ Latest.at \in Nat
        BY <2>1, PassTypes
      <4> QED
        BY <2>3, <4>1, <4>2
    <3>4. passAt - log[i].at >= Retain
      BY <2>3, <2>4, <2>6, <3>1, <3>3, ConstantsAssumption DEF InGrace, Since
    <3> QED
      BY <2>3, <3>1, <3>2, <3>4
  <2> QED
    BY <2>5, <2>6
<1> QED
  BY <1>1, InitIInv, StepIInv, PTL DEF Spec, DropsRespectGrace
===============================================================================
