-------------------------------- MODULE MCStartup -------------------------------
(* Instances of Startup for TLC.                                           *)
EXTENDS Startup

CONSTANT APath

\* All sources that name some of the settings in range, with values from it.
Partial(range) ==
    UNION {{f \in [names -> UNION {range[s] : s \in names}] : \A s \in names : f[s] \in range[s]} :
             names \in SUBSET DOMAIN range}

\* The timeouts in every source, zero and undecodable values among them.
SomeFlags ==
    Partial([s \in {"scan.timeout", "scan.hard-timeout", "scan.worker-drain-timeout", File} |->
        CASE s = "scan.timeout" -> {2}
          [] s = "scan.hard-timeout" -> {2, 4}
          [] s = "scan.worker-drain-timeout" -> {1}
          [] s = File -> {NoPath, APath}])

SomeEnvirons ==
    Partial([s \in {"scan.timeout", "scan.hard-timeout", File} |->
        CASE s = "scan.timeout" -> {0, 1, Bad}
          [] s = "scan.hard-timeout" -> {0, 1}
          [] s = File -> {NoPath, APath}])
    \cup Partial([s \in {"scan.stale-after", Gated} |->
        CASE s = "scan.stale-after" -> {-1, 1, 2, 3}
          [] s = Gated -> {Yes, No}])

SomeDocuments ==
    {Unreadable}
    \cup Partial([s \in {"scan.timeout", "scan.hard-timeout"} |->
        CASE s = "scan.timeout" -> {1, 2}
          [] s = "scan.hard-timeout" -> {3, Bad}])
    \cup Partial([s \in {"scan.interval", "scan.worker-drain-timeout"} |-> {0, 2}])
    \cup {[s \in {"scan.tmeout"} |-> 1], [s \in {File} |-> APath]}

Defaults == [s \in Setting |->
    CASE s \in ZeroOK -> 0
      [] s = "scan.interval" -> 1
      [] s = "scan.worker-drain-timeout" -> 3
      [] s = Gated -> Automatic
      [] s = File -> NoPath]

\* Before the launch no timeout is set.
Unset  == {0}
AnyDrain == {1}
===============================================================================
