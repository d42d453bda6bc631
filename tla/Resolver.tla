-------------------------------- MODULE Resolver --------------------------------
(***************************************************************************)
(* Resolver.Resolve (src/internal/targets/resolver.go): passes over the    *)
(* configured patterns that decide which directories are targets.  A       *)
(* target that stops matching is retained for a grace period, and a pass   *)
(* that ends with more than the limit is refused.                          *)
(*                                                                         *)
(* Passes run one at a time (Resolver.mu).  A pass reads the clock, then   *)
(* expands patterns and stats what they match, which takes time and sees   *)
(* a disk that changes.  A path stands for whatever resolves to it: which  *)
(* pattern found it first, symbolic links, overlaps and warnings are left  *)
(* out.                                                                    *)
(***************************************************************************)
EXTENDS Integers, Sequences, FiniteSets

CONSTANTS
    Path,
    Max,                \* Options.Max, zero is no limit
    Retain,             \* Options.RetainVanished in ticks, zero drops at once
    MaxClock, MaxPasses \* bounds of the instance

ASSUME ConstantsAssumption ==
    /\ IsFiniteSet(Path)
    /\ {Max, Retain, MaxClock, MaxPasses} \subseteq Nat

VARIABLES
    now,
    usable,     \* paths that match a pattern and are directories
    passAt,     \* the time the running pass read, Never between passes
    left,       \* paths the running pass has not looked at
    found,      \* paths it has found
    known,      \* Resolver.known
    vanishedAt, \* Resolver.vanishedAt, Never for a path without an entry
    log         \* history: the passes so far

pass == <<passAt, left, found>>
vars == <<now, usable, pass, known, vanishedAt, log>>

Never == -1

\* The state newApp leaves: its own pass has succeeded and found something.
Init ==
    /\ now = 0
    /\ usable \in SUBSET Path
    /\ passAt = Never /\ left = {} /\ found = {}
    /\ known \in SUBSET Path \ {{}}
    /\ Max > 0 => Cardinality(known) <= Max
    /\ vanishedAt = [p \in Path |-> Never]
    /\ log = <<[at |-> 0, found |-> known, ok |-> TRUE]>>

Latest == log[Len(log)]

-------------------------------------------------------------------------------
(* One pass.                                                               *)

Begin ==
    /\ passAt = Never /\ Len(log) < MaxPasses
    /\ passAt' = now /\ left' = Path /\ found' = {}
    /\ UNCHANGED <<now, usable, known, vanishedAt, log>>

\* expand and resolveOne, as far as path p is concerned.
Look(p) ==
    /\ passAt # Never /\ p \in left
    /\ left' = left \ {p}
    /\ found' = found \cup ({p} \cap usable)
    /\ UNCHANGED <<now, usable, passAt, known, vanishedAt, log>>

Missing == known \ found

\* Fault: a retained target keeps the time of an earlier absence.
KeepsOld(p) == vanishedAt[p]

\* A known path that is found again has no entry any more.
Returned(p) == Never

\* When a missing path was first found missing.
Since(p) == IF vanishedAt[p] = Never THEN passAt ELSE vanishedAt[p]

\* Fault: off by one tick at the end of the grace period.
OneTickMore(p) == Retain > 0 /\ passAt - Since(p) <= Retain

InGrace(p) == Retain > 0 /\ passAt - Since(p) < Retain

Retained == {p \in Missing : InGrace(p)}

\* What the limit is compared with.
Counted == found \cup Retained

OverLimit == Max > 0 /\ Cardinality(Counted) > Max

Record(ok) == log' = Append(log, [at |-> passAt, found |-> found, ok |-> ok])

\* The pass is applied: expired targets are forgotten.
Succeed ==
    /\ passAt # Never /\ left = {} /\ ~OverLimit
    /\ known' = found \cup Retained
    /\ vanishedAt' = [p \in Path |->
         IF p \in Retained THEN Since(p)
         ELSE IF p \in known \cap found THEN Returned(p)
         ELSE IF p \in Missing THEN Never ELSE vanishedAt[p]]
    /\ Record(TRUE)
    /\ passAt' = Never /\ found' = {}
    /\ UNCHANGED <<now, usable, left>>

\* Fault: a refused pass leaves no trace of what it missed.
Untouched(p) == vanishedAt[p]

\* What a refused pass remembers of a missing path.
Noticed(p) == Since(p)

\* The pass is refused: known stays, but what is missing has been noticed.
Refuse ==
    /\ passAt # Never /\ left = {} /\ OverLimit
    /\ vanishedAt' = [p \in Path |->
         IF p \in Missing THEN Noticed(p)
         ELSE IF p \in known \cap found THEN Returned(p) ELSE vanishedAt[p]]
    /\ Record(FALSE)
    /\ passAt' = Never /\ found' = {}
    /\ UNCHANGED <<now, usable, left, known>>

-------------------------------------------------------------------------------
(* The disk and the clock.                                                 *)

Vanish(p) ==
    /\ p \in usable
    /\ usable' = usable \ {p}
    /\ UNCHANGED <<now, pass, known, vanishedAt, log>>

Appear(p) ==
    /\ p \notin usable
    /\ usable' = usable \cup {p}
    /\ UNCHANGED <<now, pass, known, vanishedAt, log>>

Tick ==
    /\ now < MaxClock
    /\ now' = now + 1
    /\ UNCHANGED <<usable, pass, known, vanishedAt, log>>

Next ==
    \/ Begin \/ Succeed \/ Refuse \/ Tick
    \/ \E p \in Path : Look(p) \/ Vanish(p) \/ Appear(p)

Spec == Init /\ [][Next]_vars

-------------------------------------------------------------------------------
(* Properties.                                                             *)

Pass == [at : Nat, found : SUBSET Path, ok : BOOLEAN]

TypeOK ==
    /\ now \in Nat
    /\ usable \subseteq Path
    /\ passAt \in Nat \cup {Never} /\ left \subseteq Path /\ found \subseteq Path
    /\ known \subseteq Path
    /\ vanishedAt \in [Path -> Nat \cup {Never}]
    /\ log \in Seq(Pass) /\ log # <<>>

\* Passes i to n have all missed p.
MissedFrom(p, i) == \A k \in i..Len(log) : p \notin log[k].found

\* A target is dropped only by a pass that comes at least Retain after another
\* since which no pass has found it: one that came back in between, even in a
\* pass that was refused, starts a new grace period.
DropsRespectGrace ==
    [][\A p \in known \ known' :
          \E i \in 1..Len(log)' : MissedFrom(p, i)' /\ Latest'.at - log'[i].at >= Retain]_vars

\* A target that is not found lives no longer than its grace period: after a
\* pass that was applied, it was first missed less than Retain ago.
NothingLingers ==
    Latest.ok => \A p \in known \ Latest.found :
        \E i \in 2..Len(log) :
            /\ p \in log[i - 1].found /\ MissedFrom(p, i)
            /\ Latest.at - log[i].at < Retain

\* Refused passes cannot go on for ever: when passes spanning Retain have found
\* the same targets, and no more than the limit, these are the targets.
GraceEndsRefusals ==
    \A i \in 1..Len(log) :
        /\ \A k \in i..Len(log) : log[k].found = Latest.found
        /\ Latest.at - log[i].at >= Retain
        /\ Max > 0 => Cardinality(Latest.found) <= Max
        => known = Latest.found

\* The number of targets, retained ones included, never exceeds the limit.
LimitHolds == Max > 0 => Cardinality(known) <= Max
===============================================================================
