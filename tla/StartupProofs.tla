----------------------------- MODULE StartupProofs ------------------------------
(***************************************************************************)
(* Proofs about Supervisor, for all values of the three timeouts.  The     *)
(* clock stands while the supervisor can act, so what it has not yet seen  *)
(* happened at this very moment; this is what ties its verdict to when the *)
(* walk ended.  Then proofs about Startup, for any sources: what has been  *)
(* applied by each stage, and that the timeouts a supervisor ends up with  *)
(* are ones that it cannot wait under for ever.                            *)
(***************************************************************************)
EXTENDS Startup, TLAPS

\* Before anything has happened to the wait, no timeout is past.
AwaitInv ==
    phase = "await" =>
      /\ ~abandoned
      /\ scanTimeout > 0 => now <= scanTimeout
      /\ hardTimeout > 0 => now <= hardTimeout
      /\ cancelled => cancelledAt = now
      /\ latch => endedAt = now

\* The drain timer started when the deadline passed, or at shutdown.
DrainInv ==
    phase = "draining" =>
      /\ ~abandoned /\ Interrupted
      /\ drainAt \in Nat /\ now <= drainAt
      /\ scanTimeout > 0 => drainAt <= scanTimeout + DrainTime
      /\ cancelled => drainAt <= cancelledAt + DrainTime
      /\ scanTimeout = 0 /\ hardTimeout > 0 => cancelledAt <= hardTimeout
      /\ latch => endedAt = now

\* What is known while the verdict is being made, all of it at one moment: past
\* the first look, a shutdown is one that came just now; past the second, the
\* walk ended in time.
DecideInv ==
    /\ phase \in Deciding =>
         /\ latch
         /\ ~abandoned => endedAt = now
         /\ endedAt # Never => endedAt = now
         /\ ~Interrupted /\ hardTimeout > 0 => now <= hardTimeout
         /\ abandoned => Interrupted \/ HardDue
    /\ phase \in {"judge", "tally"} => (cancelled => cancelledAt = now)
    /\ phase = "tally" =>
         /\ ~abandoned
         /\ scanTimeout > 0 => now < scanTimeout
         /\ hardTimeout > 0 => now <= hardTimeout

History ==
    /\ latch <=> (endedAt # Never \/ abandoned)
    /\ cancelled => cancelledAt \in Nat /\ cancelledAt <= now
    /\ endedAt # Never => endedAt <= now
    /\ outcome # "none" <=> phase = "reported"
    /\ phase = "reported" => latch

IInv == TypeOK /\ AwaitInv /\ DrainInv /\ DecideInv /\ History /\ VerdictFits

LEMMA InitIInv == Init => IInv
<1> SUFFICES ASSUME Init PROVE IInv
  OBVIOUS
<1>1. TypeOK
  BY ConstantsAssumption DEF Init, TypeOK, Phases, Deciding, Outcomes
<1>2. AwaitInv /\ DrainInv /\ DecideInv
  BY <1>1 DEF Init, TypeOK, AwaitInv, DrainInv, DecideInv, Deciding
<1>3. History /\ VerdictFits
  BY DEF Init, History, VerdictFits
<1> QED
  BY <1>1, <1>2, <1>3 DEF IInv

\* The drain timer always exists: its duration is never zero.
LEMMA DrainTimerExists == TypeOK => DrainTime \in Nat /\ DrainTime > 0
  BY DEF TypeOK, DrainTime, Longest

LEMMA StepIInv == IInv /\ [Next]_vars => IInv'
<1> SUFFICES ASSUME IInv, [Next]_vars PROVE IInv'
  OBVIOUS
<1> USE DEF IInv, TypeOK, Phases, Outcomes, AwaitInv, DrainInv, DecideInv, History,
            VerdictFits, Never, Deciding, config, walk, Interrupted, DeadlinePassed, HardDue, Enabled
<1>1. DrainTime \in Nat /\ DrainTime > 0
  BY DrainTimerExists
<1>2. UNCHANGED config => DrainTime' = DrainTime
  BY DEF DrainTime, Longest
<1>3. CASE WalkDone
  BY <1>1, <1>2, <1>3 DEF WalkDone
<1>4. CASE DeadlineSeen
  BY <1>1, <1>2, <1>4 DEF DeadlineSeen
<1>5. CASE Abandon
  BY <1>1, <1>2, <1>5 DEF Abandon, DrainDue
<1>6. CASE Decide
  <2> USE DEF Conclude, GoOn
  <2>1. CASE AskRoot
    BY <1>1, <1>2, <1>6, <2>1 DEF Decide, AskRoot
  <2>2. CASE AskScan
    BY <1>1, <1>2, <1>6, <2>2 DEF Decide, AskScan, OutOfTime
  <2>3. CASE AskTotals
    BY <1>1, <1>2, <1>6, <2>3 DEF Decide, AskTotals
  <2> QED
    BY <1>6, <2>1, <2>2, <2>3 DEF Decide
<1>7. CASE WalkEnds
  BY <1>1, <1>2, <1>7 DEF WalkEnds
<1>8. CASE Shutdown
  BY <1>1, <1>2, <1>8 DEF Shutdown
<1>9. CASE Tick
  BY <1>1, <1>2, <1>9 DEF Tick, Busy, DrainDue
<1>10. CASE Finished \/ UNCHANGED vars
  BY <1>1, <1>2, <1>10 DEF Finished, vars
<1> QED
  BY <1>3, <1>4, <1>5, <1>6, <1>7, <1>8, <1>9, <1>10 DEF Next

LEMMA Invariance == Spec => []IInv
  BY InitIInv, StepIInv, PTL DEF Spec

\* A supervisor waits no longer than its timeouts allow, whatever its workers
\* do: the bound after which a hung mount cannot hold a cycle up.
THEOREM SupervisorsWaitIsBounded == Spec => []WaitIsBounded
<1>1. IInv => WaitIsBounded
  BY DrainTimerExists
  DEF IInv, TypeOK, Phases, AwaitInv, DrainInv, WaitIsBounded, Waiting, Interrupted,
      DeadlinePassed, History
<1> QED
  BY <1>1, Invariance, PTL

\* A walk that ended in time is reported as timed out only if the signal came in
\* the moment between the two looks that supervise takes; none that did not end in
\* time, or was given up on, is reported as finished; and one that the signal found
\* still going is reported as cancelled.
THEOREM VerdictsFit == Spec => []VerdictFits
<1>1. IInv => VerdictFits
  BY DEF IInv
<1> QED
  BY <1>1, Invariance, PTL

-------------------------------------------------------------------------------
(* Startup: what the sources settle.                                       *)

Before == stage # "started"

\* The scan of the target has not begun.
Unstarted ==
    Before =>
      /\ now = 0 /\ phase = "await" /\ drainAt = Never
      /\ latch = FALSE /\ abandoned = FALSE /\ faulty = FALSE /\ cancelled = FALSE
      /\ outcome = "none" /\ endedAt = Never /\ cancelledAt = Never

SourcesOK ==
    Before => flags \in FlagSets /\ environ \in Environs /\ document \in Documents

SettledOK ==
    Before =>
      /\ DOMAIN value = Setting /\ DOMAIN source = Setting
      /\ \A s \in Timed : value[s] \in Int

\* The path of the file stays what it was when the file was chosen by it.
PathStays ==
    /\ stage = "file" =>
         value[File] = IF File \in DOMAIN flags THEN flags[File] ELSE NoPath
    /\ stage = "document" => value[File] # NoPath
    /\ stage \in {"document", "environ"} /\ File \in DOMAIN environ \ DOMAIN flags =>
         value[File] = environ[File]

FlagsOnly(s) ==
    IF s \in DOMAIN flags THEN <<"flag", flags[s]>> ELSE <<"default", Default[s]>>

WithDocument(s) ==
    IF s \in DOMAIN flags THEN <<"flag", flags[s]>>
    ELSE IF value[File] # NoPath /\ s \in DOMAIN document THEN <<"yaml", document[s]>>
    ELSE <<"default", Default[s]>>

\* What has been applied by each stage, the strongest first.
AppliedSoFar ==
    /\ stage \in {"file", "document"} =>
         \A s \in Setting \ {File} : <<source[s], value[s]>> = FlagsOnly(s)
    /\ stage = "environ" =>
         \A s \in Setting \ {File} : <<source[s], value[s]>> = WithDocument(s)
    /\ stage = "validate" =>
         \A s \in Setting \ {File} : <<source[s], value[s]>> = Named(s)
    /\ StrongestSourceWins

\* Whatever is accepted sets the hard timeout, and above the scan timeout.
Sound(scan, hard, drain) ==
    /\ scan \in Nat /\ hard \in Nat \ {0} /\ drain \in Nat \ {0}
    /\ scan > 0 => hard > scan

AcceptedIsSound ==
    /\ stage = "valid" => Sound(value["scan.timeout"], value["scan.hard-timeout"],
                                value["scan.worker-drain-timeout"])
    /\ ~Before => Sound(scanTimeout, hardTimeout, drainTimeout)

SInv == Unstarted /\ SourcesOK /\ SettledOK /\ PathStays /\ AppliedSoFar /\ AcceptedIsSound

LEMMA InitSInv == StartupInit => SInv
<1> SUFFICES ASSUME StartupInit PROVE SInv
  OBVIOUS
<1>1. stage = "file" /\ Before /\ Unstarted /\ SourcesOK /\ AcceptedIsSound
  BY DEF StartupInit, Init, Before, Unstarted, SourcesOK, AcceptedIsSound
<1>2. File \in Setting /\ File \notin Timed /\ Timed \subseteq Setting
  BY DEF Setting, Timed, ZeroOK, File, Gated
<1>3. /\ value = [s \in Setting |-> IF s \in DOMAIN flags THEN flags[s] ELSE Default[s]]
      /\ source = [s \in Setting |-> IF s \in DOMAIN flags THEN "flag" ELSE "default"]
      /\ flags \in FlagSets
  BY DEF StartupInit
<1>4. SettledOK
  BY <1>2, <1>3, SourcesAssumption DEF SettledOK
<1>5. PathStays
  BY <1>1, <1>2, <1>3, SourcesAssumption DEF PathStays
<1>6. AppliedSoFar
  BY <1>1, <1>3 DEF AppliedSoFar, FlagsOnly, StrongestSourceWins
<1> QED
  BY <1>1, <1>4, <1>5, <1>6 DEF SInv

\* What the stages before the launch leave alone.
Same == UNCHANGED <<vars, sources>>

LEMMA SameScan ==
  ASSUME SInv, Same, Before, Before'
  PROVE  Unstarted' /\ SourcesOK'
  BY DEF SInv, Same, Before, Unstarted, SourcesOK, vars, walk, sources

LEMMA FileStep == ASSUME SInv, SettleFile PROVE SInv'
<1>1. /\ stage = "file" /\ Same
      /\ stage' = IF value'[File] = NoPath THEN "environ" ELSE "document"
      /\ flags' = flags /\ environ' = environ /\ document' = document
  BY DEF SettleFile, Same, sources
<1>2. DOMAIN value = Setting /\ DOMAIN source = Setting /\ \A s \in Timed : value[s] \in Int
  BY <1>1 DEF SInv, SettledOK, Before
<1>3. File \in Setting /\ File \notin Timed /\ Timed \subseteq Setting
  BY DEF Setting, Timed, ZeroOK, File, Gated
<1>4. /\ DOMAIN value' = Setting /\ DOMAIN source' = Setting
      /\ \A s \in Setting \ {File} : value'[s] = value[s] /\ source'[s] = source[s]
      /\ value'[File] = IF FromEnviron THEN environ[File] ELSE value[File]
  BY <1>2, <1>3 DEF SettleFile
<1>5. Unstarted' /\ SourcesOK'
  BY <1>1, SameScan DEF Before
<1>6. SettledOK'
  BY <1>2, <1>3, <1>4 DEF SettledOK
<1>7. PathStays'
  BY <1>1, <1>4 DEF SInv, PathStays, FromEnviron
<1>8. AppliedSoFar'
  BY <1>1, <1>4 DEF SInv, AppliedSoFar, FlagsOnly, WithDocument, StrongestSourceWins
<1>9. AcceptedIsSound'
  BY <1>1 DEF AcceptedIsSound, Before
<1> QED
  BY <1>5, <1>6, <1>7, <1>8, <1>9 DEF SInv

LEMMA DocumentStep == ASSUME SInv, ApplyYAML PROVE SInv'
<1>1. /\ stage = "document" /\ stage' = "environ" /\ Same /\ DocumentOK
      /\ Overlay(document, "yaml")
      /\ flags' = flags /\ environ' = environ /\ document' = document
  BY DEF ApplyYAML, Same, sources
<1>2. DOMAIN value = Setting /\ DOMAIN source = Setting /\ \A s \in Timed : value[s] \in Int
  BY <1>1 DEF SInv, SettledOK, Before
<1>3. File \in Setting /\ File \notin Timed /\ Timed \subseteq Setting
  BY DEF Setting, Timed, ZeroOK, File, Gated
<1>4. File \notin DOMAIN document /\ document # Unreadable /\ document \in Documents
  BY <1>1 DEF DocumentOK, Decodes, SInv, SourcesOK, Before
<1>5. /\ DOMAIN value' = Setting /\ DOMAIN source' = Setting
      /\ \A s \in Setting :
           IF s \in DOMAIN document \ DOMAIN flags
             THEN value'[s] = document[s] /\ source'[s] = "yaml"
             ELSE value'[s] = value[s] /\ source'[s] = source[s]
  BY <1>1 DEF Overlay, Pinned
<1>6. \A s \in Timed \cap (DOMAIN document \ DOMAIN flags) : document[s] \in Int
  BY <1>1, <1>4, SourcesAssumption DEF DocumentOK, Decodes, Pinned
<1>7. Unstarted' /\ SourcesOK'
  BY <1>1, SameScan DEF Before
<1>8. SettledOK'
  BY <1>2, <1>3, <1>5, <1>6 DEF SettledOK
<1>9. value'[File] = value[File] /\ value[File] # NoPath
  BY <1>1, <1>3, <1>4, <1>5 DEF SInv, PathStays
<1>10. PathStays'
  BY <1>1, <1>9 DEF SInv, PathStays
<1>11. AppliedSoFar'
  BY <1>1, <1>5, <1>9 DEF SInv, AppliedSoFar, FlagsOnly, WithDocument, StrongestSourceWins
<1>12. AcceptedIsSound'
  BY <1>1 DEF AcceptedIsSound, Before
<1> QED
  BY <1>7, <1>8, <1>10, <1>11, <1>12 DEF SInv

LEMMA EnvironStep == ASSUME SInv, ApplyEnv PROVE SInv'
<1>1. /\ stage = "environ" /\ stage' = "validate" /\ Same /\ EnvironOK
      /\ Overlay(environ, "environ")
      /\ flags' = flags /\ environ' = environ /\ document' = document
  BY DEF ApplyEnv, Same, sources
<1>2. DOMAIN value = Setting /\ DOMAIN source = Setting /\ \A s \in Timed : value[s] \in Int
  BY <1>1 DEF SInv, SettledOK, Before
<1>3. File \in Setting /\ File \notin Timed /\ Timed \subseteq Setting
  BY DEF Setting, Timed, ZeroOK, File, Gated
<1>4. /\ DOMAIN value' = Setting /\ DOMAIN source' = Setting
      /\ \A s \in Setting :
           IF s \in DOMAIN environ \ DOMAIN flags
             THEN value'[s] = environ[s] /\ source'[s] = "environ"
             ELSE value'[s] = value[s] /\ source'[s] = source[s]
  BY <1>1 DEF Overlay, Pinned
<1>5. \A s \in Timed \cap (DOMAIN environ \ DOMAIN flags) : environ[s] \in Int
  BY <1>1, SourcesAssumption DEF EnvironOK, Pinned, SInv, SourcesOK, Before
<1>6. Unstarted' /\ SourcesOK'
  BY <1>1, SameScan DEF Before
<1>7. SettledOK'
  BY <1>2, <1>3, <1>4, <1>5 DEF SettledOK
<1>8. value'[File] = value[File]
  BY <1>1, <1>3, <1>4 DEF SInv, PathStays
<1>9. PathStays'
  BY <1>1 DEF PathStays
<1>10. AppliedSoFar'
  BY <1>1, <1>4, <1>8 DEF SInv, AppliedSoFar, WithDocument, Named, StrongestSourceWins
<1>11. AcceptedIsSound'
  BY <1>1 DEF AcceptedIsSound, Before
<1> QED
  BY <1>6, <1>7, <1>9, <1>10, <1>11 DEF SInv

\* Validation derives a hard timeout where none is set, and refuses one that is
\* no longer than the scan timeout.
LEMMA ValidateStep == ASSUME SInv, Validate PROVE SInv'
<1> DEFINE hard == "scan.hard-timeout"
<1>1. /\ stage = "validate" /\ stage' = "valid" /\ Same /\ Valid
      /\ value' = [value EXCEPT ![hard] = HardTimeout]
      /\ source' = [source EXCEPT ![hard] = IF Derived THEN "derived" ELSE @]
      /\ flags' = flags /\ environ' = environ /\ document' = document
  BY DEF Validate, Same, sources
<1>2. DOMAIN value = Setting /\ DOMAIN source = Setting /\ \A s \in Timed : value[s] \in Int
  BY <1>1 DEF SInv, SettledOK, Before
<1>3. /\ File \in Setting /\ File # hard /\ Timed \subseteq Setting
      /\ {hard, "scan.timeout", "scan.worker-drain-timeout"} \subseteq Timed
      /\ "scan.worker-drain-timeout" \notin ZeroOK
      /\ "scan.timeout" # hard /\ "scan.worker-drain-timeout" # hard
  BY DEF Setting, Timed, ZeroOK, File, Gated
<1>4. /\ DOMAIN value' = Setting /\ DOMAIN source' = Setting
      /\ \A s \in Setting \ {hard} : value'[s] = value[s] /\ source'[s] = source[s]
      /\ value'[hard] = HardTimeout
      /\ source'[hard] = IF Derived THEN "derived" ELSE source[hard]
  BY <1>1, <1>2, <1>3
<1> HIDE DEF hard
<1>5. Sound(value["scan.timeout"], HardTimeout, value["scan.worker-drain-timeout"])
  <2>1. /\ value["scan.timeout"] \in Nat /\ value["scan.hard-timeout"] \in Nat
        /\ value["scan.worker-drain-timeout"] \in Nat \ {0}
    BY <1>1, <1>2, <1>3 DEF Valid, InRange, hard
  <2>2. HardFits
    BY <1>1 DEF Valid
  <2> QED
    BY <2>1, <2>2, SourcesAssumption DEF Sound, HardTimeout, Derived, HardFits, Exceeds
<1>6. Unstarted' /\ SourcesOK'
  BY <1>1, SameScan DEF Before
<1>7. SettledOK'
  BY <1>2, <1>3, <1>4, <1>5 DEF SettledOK, Sound
<1>8. PathStays'
  BY <1>1 DEF PathStays
<1>9. value'[File] = value[File]
  BY <1>3, <1>4
<1>10. \A s \in Setting \ {File} : <<source[s], value[s]>> = Named(s) /\ Named(s)' = Named(s)
  BY <1>1, <1>9 DEF SInv, AppliedSoFar, Named
<1>11. \A s \in Setting \ {File} : source[s] # "derived"
  BY <1>10 DEF Named
<1>12. Derived => value[hard] = 0
  BY DEF Derived, hard
<1>13. ~Derived => HardTimeout = value[hard]
  BY DEF HardTimeout, hard
<1>14. ASSUME NEW s \in Setting \ {File}
       PROVE  IF source'[s] = "derived" THEN s = hard /\ Named(s)'[2] = 0
              ELSE <<source'[s], value'[s]>> = Named(s)'
  <2>1. CASE s = hard /\ Derived
    <3>1. Named(s)[2] = value[s]
      BY <1>10
    <3> QED
      BY <1>4, <1>10, <1>12, <2>1, <3>1
  <2>2. CASE ~(s = hard /\ Derived)
    <3>1. source'[s] = source[s] /\ value'[s] = value[s]
      BY <1>4, <1>13, <2>2
    <3> QED
      BY <1>10, <1>11, <3>1
  <2> QED
    BY <2>1, <2>2
<1>15. AppliedSoFar'
  BY <1>1, <1>14 DEF AppliedSoFar, StrongestSourceWins, hard
<1>16. AcceptedIsSound'
  BY <1>1, <1>3, <1>4, <1>5 DEF AcceptedIsSound, Before, hard
<1> QED
  BY <1>6, <1>7, <1>8, <1>15, <1>16 DEF SInv

LEMMA LaunchStep == ASSUME SInv, Launch PROVE SInv'
<1>1. /\ stage = "valid" /\ stage' = "started"
      /\ scanTimeout' = value["scan.timeout"] /\ hardTimeout' = value["scan.hard-timeout"]
      /\ drainTimeout' = value["scan.worker-drain-timeout"]
  BY DEF Launch
<1> QED
  BY <1>1 DEF SInv, Unstarted, SourcesOK, SettledOK, PathStays, AppliedSoFar,
     StrongestSourceWins, AcceptedIsSound, Before

LEMMA RefuseStep == ASSUME SInv, Refuse PROVE SInv'
<1>1. /\ stage \in {"document", "environ", "validate"} /\ stage' = "refused" /\ Same
      /\ UNCHANGED settled
  BY DEF Refuse, Same
<1>2. Unstarted' /\ SourcesOK'
  BY <1>1, SameScan DEF Before
<1> QED
  BY <1>1, <1>2 DEF SInv, SettledOK, PathStays, AppliedSoFar, StrongestSourceWins,
     AcceptedIsSound, Before, settled

\* The scan leaves its timeouts alone.
LEMMA ScanStep == ASSUME SInv, Scan PROVE SInv'
<1>1. stage = "started" /\ stage' = "started" /\ UNCHANGED config
  BY DEF Scan, Next, WalkDone, DeadlineSeen, Abandon, Decide, WalkEnds, Shutdown, Tick,
     Finished, vars
<1> QED
  BY <1>1 DEF SInv, Unstarted, SourcesOK, SettledOK, PathStays, AppliedSoFar,
     StrongestSourceWins, AcceptedIsSound, Before, config

all == <<vars, stage, sources, settled>>

LEMMA StutterStep == ASSUME SInv, UNCHANGED all PROVE SInv'
<1>1. /\ UNCHANGED <<stage, flags, environ, document, value, source>>
      /\ UNCHANGED <<scanTimeout, hardTimeout, drainTimeout, now, phase, drainAt, latch,
                     abandoned, faulty, endedAt, cancelled, outcome, cancelledAt>>
  BY DEF all, vars, config, walk, sources, settled
<1>2. \A s \in Setting : Named(s)' = Named(s) /\ FlagsOnly(s)' = FlagsOnly(s)
                         /\ WithDocument(s)' = WithDocument(s)
  BY <1>1 DEF Named, FlagsOnly, WithDocument
<1>3. AppliedSoFar'
  BY <1>1, <1>2 DEF SInv, AppliedSoFar, StrongestSourceWins
<1> QED
  BY <1>1, <1>3 DEF SInv, Unstarted, SourcesOK, SettledOK, PathStays, AcceptedIsSound, Before

LEMMA StepSInv == SInv /\ [StartupNext]_all => SInv'
<1> SUFFICES ASSUME SInv, [StartupNext]_all PROVE SInv'
  OBVIOUS
<1>1. Exited => UNCHANGED all
  BY DEF Exited, all
<1> QED
  BY <1>1, FileStep, DocumentStep, EnvironStep, ValidateStep, RefuseStep, LaunchStep,
     ScanStep, StutterStep DEF StartupNext

\* The supervisor's own invariant holds whenever a scan has begun: it begins
\* where Supervisor begins, with any timeouts that were accepted.
RunInv == ~Before => IInv

LEMMA StepRunInv == SInv /\ RunInv /\ [StartupNext]_all => RunInv'
<1> SUFFICES ASSUME SInv, RunInv, [StartupNext]_all, ~Before' PROVE IInv'
  BY DEF RunInv
<1>1. CASE Launch
  <2>1. /\ stage = "valid"
        /\ scanTimeout' = value["scan.timeout"] /\ hardTimeout' = value["scan.hard-timeout"]
        /\ drainTimeout' = value["scan.worker-drain-timeout"]
        /\ UNCHANGED <<now, phase, drainAt, latch, abandoned, faulty, endedAt, cancelled,
                       outcome, cancelledAt>>
    BY <1>1 DEF Launch, walk
  <2>2. scanTimeout' \in Nat /\ hardTimeout' \in Nat /\ drainTimeout' \in Nat \ {0}
    BY <2>1 DEF SInv, AcceptedIsSound, Sound
  <2>3. /\ now' = 0 /\ phase' = "await" /\ drainAt' = Never
        /\ latch' = FALSE /\ abandoned' = FALSE /\ faulty' = FALSE /\ cancelled' = FALSE
        /\ outcome' = "none" /\ endedAt' = Never /\ cancelledAt' = Never
    BY <2>1 DEF SInv, Unstarted, Before
  <2>4. TypeOK'
    BY <2>2, <2>3 DEF TypeOK, Phases, Deciding, Outcomes
  <2>5. AwaitInv' /\ DrainInv' /\ DecideInv'
    BY <2>2, <2>3 DEF AwaitInv, DrainInv, DecideInv, Deciding
  <2>6. History' /\ VerdictFits'
    BY <2>3 DEF History, VerdictFits
  <2> QED
    BY <2>4, <2>5, <2>6 DEF IInv
<1>2. CASE Scan
  BY <1>2, StepIInv DEF Scan, RunInv, Before
<1>3. CASE SettleFile \/ ApplyYAML \/ ApplyEnv \/ Validate \/ Refuse \/ Exited
  BY <1>3 DEF SettleFile, ApplyYAML, ApplyEnv, Validate, Refuse, Exited, Before
<1>4. CASE UNCHANGED all
  BY <1>4, StepIInv DEF all, RunInv, Before
<1> QED
  BY <1>1, <1>2, <1>3, <1>4 DEF StartupNext

LEMMA StartupInvariance == StartupSpec => [](SInv /\ RunInv)
<1>1. StartupInit => RunInv
  BY DEF StartupInit, RunInv, Before
<1> QED
  BY <1>1, InitSInv, StepSInv, StepRunInv, PTL DEF StartupSpec, all

\* Each setting has the value of the strongest source that names it, whatever
\* the sources hold, and is labelled with that source.
THEOREM StrongestSourcesWin == StartupSpec => []StrongestSourceWins
<1>1. SInv => StrongestSourceWins
  BY DEF SInv, AppliedSoFar
<1> QED
  BY <1>1, StartupInvariance, PTL

\* No configuration that is accepted lets a supervisor wait for ever.
THEOREM SupervisorsGiveUp == StartupSpec => []AlwaysGivesUp
<1>1. SInv /\ RunInv => AlwaysGivesUp
  <2> SUFFICES ASSUME SInv, RunInv, stage = "started", Waiting
               PROVE  now <= (IF scanTimeout > 0 THEN scanTimeout ELSE hardTimeout) + DrainTime
    BY DEF AlwaysGivesUp
  <2>1. IInv /\ hardTimeout \in Nat \ {0} /\ scanTimeout \in Nat
    BY DEF RunInv, Before, SInv, AcceptedIsSound, Sound
  <2>2. DrainTime \in Nat /\ DrainTime > 0
    BY <2>1, DrainTimerExists DEF IInv
  <2> QED
    BY <2>1, <2>2 DEF IInv, TypeOK, Phases, AwaitInv, DrainInv, History, Waiting, Interrupted,
       DeadlinePassed
<1> QED
  BY <1>1, StartupInvariance, PTL

\* With a scan timeout, the workers of a target are told to stop before it is
\* given up on, under every configuration that is accepted.
THEOREM WarningsComeFirst == StartupSpec => WarnedFirst
<1>1. SInv /\ RunInv /\ [StartupNext]_all =>
        [abandoned' /\ ~abandoned /\ scanTimeout > 0 => phase = "draining"]_vars
  <2> SUFFICES ASSUME SInv, RunInv, [StartupNext]_all, abandoned', ~abandoned, scanTimeout > 0
               PROVE  phase = "draining"
    OBVIOUS
  <2>1. Scan
    BY DEF StartupNext, SettleFile, ApplyYAML, ApplyEnv, Validate, Refuse, Launch, Exited, all,
       vars, walk
  <2>2. Abandon
    BY <2>1 DEF Scan, Next, WalkDone, DeadlineSeen, Decide, WalkEnds, Shutdown, Tick, Finished,
       vars, walk
  <2>3. IInv /\ scanTimeout \in Nat /\ hardTimeout \in Nat /\ hardTimeout > scanTimeout
    BY <2>1 DEF Scan, RunInv, Before, SInv, AcceptedIsSound, Sound
  <2> QED
    BY <2>2, <2>3 DEF Abandon, HardDue, IInv, AwaitInv, TypeOK
<1> QED
  BY <1>1, StartupInvariance, PTL DEF StartupSpec, WarnedFirst, all
===============================================================================
