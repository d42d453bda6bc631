-------------------------------- MODULE Startup ---------------------------------
(***************************************************************************)
(* From the sources of the configuration to a scan that runs under it:     *)
(* Registry.Resolve and Registry.Validate (src/internal/config), and then  *)
(* the Supervisor of one target with the timeouts that came out.           *)
(*                                                                         *)
(* A source is a function from the settings it names to values; a value    *)
(* that does not parse is Bad.  The settings are those the timeouts depend *)
(* on, one that the platform may not support, and the path of the file.    *)
(***************************************************************************)
EXTENDS Supervisor

CONSTANTS
    FlagSets, Environs, Documents,  \* sources to try
    Unreadable,                     \* a file that cannot be read or is no YAML
    Bad,
    Automatic, Yes, No,             \* Tristate
    NoPath,                         \* an empty path of the file
    Default,                        \* the registry's defaults
    Backstop                        \* defaultHardTimeoutBackstop

File  == "config.file"
Gated == "collector.filesystem"
ZeroOK == {"scan.timeout", "scan.hard-timeout", "scan.stale-after"}
Timed  == ZeroOK \cup {"scan.interval", "scan.worker-drain-timeout"}
Setting == Timed \cup {Gated, File}

\* kingpin refuses a flag that does not parse; a duration that parses is an
\* integer; without a flag there is no file.
ASSUME SourcesAssumption ==
    /\ \A f \in FlagSets : \A s \in DOMAIN f \cap Timed : f[s] \in Int
    /\ \A f \in Environs \cup (Documents \ {Unreadable}) :
         \A s \in DOMAIN f \cap Timed : f[s] \in Int \cup {Bad}
    /\ DOMAIN Default = Setting /\ \A s \in Timed : Default[s] \in Int
    /\ Default[File] = NoPath
    /\ Backstop \in Nat \ {0}

VARIABLES
    stage,      \* "file", "document", "environ", "validate", "valid", "started", "refused"
    flags, environ, document,
    capable,    \* the platform can tell what the gated setting needs
    value,      \* Config
    source,     \* field.source
    enabled     \* Resolved, as far as the gated setting is concerned

sources == <<flags, environ, document, capable>>
settled == <<value, source, enabled>>

Nothing == [s \in {} |-> Bad]

\* kingpin has parsed the flags: each setting has the flag's value or its default.
StartupInit ==
    /\ Init
    /\ stage = "file"
    /\ flags \in FlagSets /\ environ \in Environs /\ document \in Documents
    /\ capable \in BOOLEAN
    /\ value = [s \in Setting |-> IF s \in DOMAIN flags THEN flags[s] ELSE Default[s]]
    /\ source = [s \in Setting |-> IF s \in DOMAIN flags THEN "flag" ELSE "default"]
    /\ enabled = FALSE

-------------------------------------------------------------------------------
(* Registry.Resolve                                                        *)

\* Fault: a later source overwrites what a flag has set.
Overwritten == {}

\* setByFlag: settings that the other sources skip.
Pinned == DOMAIN flags

\* The path comes from the flag, or from the environment.
FromEnviron == value[File] = NoPath /\ File \in DOMAIN environ /\ environ[File] # NoPath

SettleFile ==
    /\ stage = "file"
    /\ IF FromEnviron
         THEN /\ value' = [value EXCEPT ![File] = environ[File]]
              /\ source' = [source EXCEPT ![File] = "environ"]
         ELSE UNCHANGED <<value, source>>
    /\ stage' = IF value'[File] = NoPath THEN "environ" ELSE "document"
    /\ UNCHANGED <<vars, sources, enabled>>

Overlay(layer, name) ==
    LET named == (DOMAIN layer \cap Setting) \ Pinned IN
    /\ value' = [s \in Setting |-> IF s \in named THEN layer[s] ELSE value[s]]
    /\ source' = [s \in Setting |-> IF s \in named THEN name ELSE source[s]]

\* A known setting that may be in a file, with a value that parses.
Decodes(s) == s \in Setting \ {File} /\ (s \in Pinned \/ document[s] # Bad)

DocumentOK == document # Unreadable /\ \A s \in DOMAIN document : Decodes(s)

ApplyYAML ==
    /\ stage = "document" /\ DocumentOK
    /\ Overlay(document, "yaml")
    /\ stage' = "environ"
    /\ UNCHANGED <<vars, sources, enabled>>

EnvironOK == \A s \in DOMAIN environ \ Pinned : environ[s] # Bad

ApplyEnv ==
    /\ stage = "environ" /\ EnvironOK
    /\ Overlay(environ, "environ")
    /\ stage' = "validate"
    /\ UNCHANGED <<vars, sources, enabled>>

-------------------------------------------------------------------------------
(* Registry.Validate                                                       *)

InRange(s) == value[s] >= 0 /\ (s \notin ZeroOK => value[s] > 0)

\* Fault: the two timeouts may be equal.
OrEqual(hard, soft) == hard >= soft

Exceeds(hard, soft) == hard > soft

HardFits ==
    value["scan.hard-timeout"] > 0 /\ value["scan.timeout"] > 0 =>
        Exceeds(value["scan.hard-timeout"], value["scan.timeout"])

StaleFits ==
    value["scan.stale-after"] > 0 => value["scan.stale-after"] > value["scan.interval"]

\* resolveGate
Enables == value[Gated] # No /\ capable

\* What is asked for and impossible is an error, not a warning.
GateFits == value[Gated] = Yes => capable

Valid == (\A s \in Timed : InRange(s)) /\ HardFits /\ StaleFits /\ GateFits

Derived == value["scan.hard-timeout"] = 0

\* Fault: the hard timeout is derived from the scan timeout only.
TwiceOnly == 2 * value["scan.timeout"]

HardTimeout ==
    IF ~Derived THEN value["scan.hard-timeout"]
    ELSE IF value["scan.timeout"] > 0 THEN 2 * value["scan.timeout"] ELSE Backstop

Validate ==
    /\ stage = "validate" /\ Valid
    /\ value' = [value EXCEPT !["scan.hard-timeout"] = HardTimeout]
    /\ source' = [source EXCEPT !["scan.hard-timeout"] = IF Derived THEN "derived" ELSE @]
    /\ enabled' = Enables
    /\ stage' = "valid"
    /\ UNCHANGED <<vars, sources>>

\* An error anywhere ends the process before anything is scanned; what has been
\* applied by then is used by nobody.
Refuse ==
    /\ \/ stage = "document" /\ ~DocumentOK
       \/ stage = "environ" /\ ~EnvironOK
       \/ stage = "validate" /\ ~Valid
    /\ stage' = "refused"
    /\ UNCHANGED <<vars, sources, settled>>

-------------------------------------------------------------------------------
(* newApp: the engine gets the timeouts, and the scan of a target begins.  *)
(* The sources are not read again, and forgotten here.                     *)
Launch ==
    /\ stage = "valid"
    /\ scanTimeout' = value["scan.timeout"]
    /\ hardTimeout' = value["scan.hard-timeout"]
    /\ drainTimeout' = value["scan.worker-drain-timeout"]
    /\ flags' = Nothing /\ environ' = Nothing /\ document' = Nothing /\ capable' = FALSE
    /\ value' = Default /\ source' = [s \in Setting |-> "default"] /\ enabled' = FALSE
    /\ stage' = "started"
    /\ UNCHANGED <<now, phase, drainAt, walk, cancelled, outcome, cancelledAt>>

Scan == stage = "started" /\ Next /\ UNCHANGED <<stage, sources, settled>>

Exited == stage = "refused" /\ UNCHANGED <<vars, stage, sources, settled>>

StartupNext ==
    \/ SettleFile \/ ApplyYAML \/ ApplyEnv \/ Validate \/ Refuse
    \/ Launch \/ Scan \/ Exited

StartupSpec == StartupInit /\ [][StartupNext]_<<vars, stage, sources, settled>>

-------------------------------------------------------------------------------
(* Properties.                                                             *)

\* The sources that may set s, the strongest first: flags, environment, file.
Named(s) ==
    IF s \in DOMAIN flags THEN <<"flag", flags[s]>>
    ELSE IF s \in DOMAIN environ THEN <<"environ", environ[s]>>
    ELSE IF value[File] # NoPath /\ s \in DOMAIN document THEN <<"yaml", document[s]>>
    ELSE <<"default", Default[s]>>

\* A setting has the value of the strongest source that names it, and is
\* labelled with it in the startup audit, although the file is applied before
\* the environment and the path of the file before both.  Only a hard timeout
\* of zero is replaced by one that is derived, and labelled so.
StrongestSourceWins ==
    stage = "valid" =>
        \A s \in Setting \ {File} :
            IF source[s] = "derived" THEN s = "scan.hard-timeout" /\ Named(s)[2] = 0
            ELSE <<source[s], value[s]>> = Named(s)

\* Whatever was configured, if the exporter starts with it then a supervisor
\* gives up on a target whose workers are stuck: nothing switches the wait off.
AlwaysGivesUp ==
    stage = "started" /\ Waiting =>
        now <= (IF scanTimeout > 0 THEN scanTimeout ELSE hardTimeout) + DrainTime

\* A target is never abandoned before its workers were told to stop and had
\* time to: with a scan timeout the hard timeout cannot come first.
WarnedFirst ==
    [][abandoned' /\ ~abandoned /\ scanTimeout > 0 => phase = "draining"]_vars
===============================================================================
