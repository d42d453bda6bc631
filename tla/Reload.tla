--------------------------------- MODULE Reload ---------------------------------
(***************************************************************************)
(* Reloads of the target set (src/cmd/directory-size-exporter/main.go) and *)
(* the handler that answers requests for them (src/internal/server/server. *)
(* go).  The refresh loop, the signal watcher and one goroutine for each   *)
(* request call application.reload; one that finds another running returns *)
(* at once.  The process goes on until the HTTP server has come to an end: *)
(* after SIGTERM it drains the requests it has taken.                      *)
(*                                                                         *)
(* The disk is a number that grows with each change; a resolution is the   *)
(* number its pass saw, which takes time and sees some state the disk is   *)
(* in meanwhile (Resolver is about what a pass makes of it).               *)
(***************************************************************************)
EXTENDS Naturals

CONSTANTS
    Request,        \* POST /-/reload requests
    TooMany,        \* states of the disk that exceed the limit on targets
    MaxChanges      \* bound of the instance

ASSUME ConstantsAssumption == MaxChanges \in Nat /\ {"timer", "signal"} \cap Request = {}

Loops  == {"timer", "signal"}
Caller == Loops \cup Request

VARIABLES
    disk,       \* changes the disk has seen
    hung,       \* a pass that looks at the disk never returns
    cancelled,  \* the process is shutting down
    applied,    \* the resolution Store.SetTargets was last called with
    step,       \* progress of each caller through reload
    view,       \* the resolution the caller has obtained, or the disk when its pass began
    result,     \* what its reload returned
    pending,    \* the signal channel, which has room for one, is full
    asked,      \* history: a signal came after the watcher last called reload
    answer,     \* the response each request has had
    logged,     \* failed reloads the request's goroutine has logged
    server      \* progress of application.serve to the end of the process

world    == <<disk, hung, cancelled>>
signals  == <<pending, asked>>
requests == <<answer, logged>>
vars == <<world, applied, step, view, result, signals, requests, server>>

\* The listener takes connections before and while the process is reported unhealthy.
Listening == {"healthy", "unhealthy"}
Over      == {"stopped", "cut", "failed", "killed"}
Alive     == server \notin Over

Init ==
    /\ disk = 0 /\ hung = FALSE /\ cancelled = FALSE
    /\ applied = 0
    /\ step = [c \in Caller |-> IF c = "signal" THEN "starting" ELSE "idle"]
    /\ view = [c \in Caller |-> 0]
    /\ result = [c \in Caller |-> "none"]
    /\ pending = FALSE /\ asked = FALSE
    /\ answer = [r \in Request |-> "none"]
    /\ logged = {}
    /\ server = "healthy"

Goto(c, next) == step' = [step EXCEPT ![c] = next]

-------------------------------------------------------------------------------
(* application.reload                                                      *)

\* Fault: resolving and applying are not serialised.
NoLock == TRUE

\* reloadMu.TryLock succeeds.
Free == \A c \in Caller : step[c] \notin {"resolving", "applying"}

Enter(c) ==
    /\ step[c] = "called" /\ Free
    /\ view' = [view EXCEPT ![c] = disk]
    /\ Goto(c, "resolving")
    /\ UNCHANGED <<world, applied, result, signals, requests, server>>

\* Another reload is running: this one returns without an error.
Coalesce(c) ==
    /\ step[c] = "called" /\ ~Free
    /\ Goto(c, "returned")
    /\ result' = [result EXCEPT ![c] = "ok"]
    /\ UNCHANGED <<world, applied, view, signals, requests, server>>

Resolve(c) ==
    /\ step[c] = "resolving" /\ ~hung
    /\ \E seen \in (view[c]..disk) \ TooMany : view' = [view EXCEPT ![c] = seen]
    /\ Goto(c, "applying")
    /\ UNCHANGED <<world, applied, result, signals, requests, server>>

ResolveFails(c) ==
    /\ step[c] = "resolving" /\ ~hung /\ (view[c]..disk) \cap TooMany # {}
    /\ result' = [result EXCEPT ![c] = "error"]
    /\ Goto(c, "returned")
    /\ UNCHANGED <<world, applied, view, signals, requests, server>>

\* Store.SetTargets, and the lock is released.
Apply(c) ==
    /\ step[c] = "applying"
    /\ applied' = view[c]
    /\ result' = [result EXCEPT ![c] = "ok"]
    /\ Goto(c, "returned")
    /\ UNCHANGED <<world, view, signals, requests, server>>

-------------------------------------------------------------------------------
(* refreshLoop and watchReloadSignals                                      *)

TimerTicks ==
    /\ step["timer"] = "idle"
    /\ Goto("timer", "called")
    /\ UNCHANGED <<world, applied, view, result, signals, requests, server>>

\* notifyReload, on the watcher's own goroutine.
Subscribe ==
    /\ step["signal"] = "starting"
    /\ Goto("signal", "idle")
    /\ UNCHANGED <<world, applied, view, result, signals, requests, server>>

TakeSignal ==
    /\ step["signal"] = "idle" /\ pending
    /\ pending' = FALSE /\ asked' = FALSE
    /\ Goto("signal", "called")
    /\ UNCHANGED <<world, applied, view, result, requests, server>>

\* Fault: a loop ends with the first reload that fails.
EndsOnError(c) == IF result[c] = "error" THEN "gone" ELSE "idle"

\* A loop goes on whatever its reload returned.
AfterReload(c) == "idle"

Return(c) ==
    /\ c \in Loops /\ step[c] = "returned"
    /\ Goto(c, AfterReload(c))
    /\ result' = [result EXCEPT ![c] = "none"]
    /\ UNCHANGED <<world, applied, view, signals, requests, server>>

\* The watcher's deferred signal.Stop gives the signal its default action again.
Quit(c) ==
    /\ c \in Loops /\ step[c] = "idle" /\ cancelled
    /\ Goto(c, "gone")
    /\ UNCHANGED <<world, applied, view, result, signals, requests, server>>

-------------------------------------------------------------------------------
(* Server.handleReload                                                     *)

Post(r) ==
    /\ answer[r] = "none" /\ server \in Listening
    /\ answer' = [answer EXCEPT ![r] = "waiting"]
    /\ Goto(r, "called")
    /\ UNCHANGED <<world, applied, view, result, signals, logged, server>>

\* Fault: the handler logs the failures it answers with, and nobody the others.
ToldByHandler(r) == result[r] = "error" /\ answer[r] = "waiting"

\* The request's goroutine logs a failure, whoever waits for it.
Logs(r) == result[r] = "error"

Finish(r) ==
    /\ r \in Request /\ step[r] = "returned"
    /\ Goto(r, "done")
    /\ logged' = IF Logs(r) THEN logged \cup {r} ELSE logged
    /\ UNCHANGED <<world, applied, view, result, signals, answer, server>>

AnswerInTime(r) ==
    /\ answer[r] = "waiting" /\ step[r] = "done"
    /\ answer' = [answer EXCEPT ![r] = IF result[r] = "ok" THEN "reloaded" ELSE "failed"]
    /\ UNCHANGED <<world, applied, step, view, result, signals, logged, server>>

\* Fault: the handler waits for the reload however long it takes.
NoTimer(r) == step[r] = "done"

\* The timer runs from the start of the request.
TimerMayFire(r) == TRUE

\* The reload goes on after this answer.
AnswerAccepted(r) ==
    /\ answer[r] = "waiting" /\ TimerMayFire(r)
    /\ answer' = [answer EXCEPT ![r] = "accepted"]
    /\ UNCHANGED <<world, applied, step, view, result, signals, logged, server>>

-------------------------------------------------------------------------------
(* application.serve                                                       *)

\* The listener could not be opened, or broke: run returns the error.
ListenerFails ==
    /\ server = "healthy"
    /\ server' = "failed"
    /\ UNCHANGED <<world, applied, step, view, result, signals, requests>>

\* Control.SetHealthy(false), before the listener closes.
TurnUnhealthy ==
    /\ server = "healthy" /\ cancelled
    /\ server' = "unhealthy"
    /\ UNCHANGED <<world, applied, step, view, result, signals, requests>>

\* http.Server.Shutdown closes the listener, and ListenAndServe returns.
CloseListener ==
    /\ server = "unhealthy"
    /\ server' = "draining"
    /\ UNCHANGED <<world, applied, step, view, result, signals, requests>>

\* Fault: the reloads that go on after their answer are waited for as well.
AllDone == \A r \in Request : answer[r] = "none" \/ step[r] = "done"

\* No handler is running any more.
Drained == \A r \in Request : answer[r] # "waiting"

Stop ==
    /\ server = "draining" /\ Drained
    /\ server' = "stopped"
    /\ UNCHANGED <<world, applied, step, view, result, signals, requests>>

\* shutdownTimeout has passed: handlers that still run go with the process.
CutShort ==
    /\ server = "draining"
    /\ server' = "cut"
    /\ UNCHANGED <<world, applied, step, view, result, signals, requests>>

-------------------------------------------------------------------------------
(* The environment.                                                        *)

DiskChanges ==
    /\ disk < MaxChanges
    /\ disk' = disk + 1
    /\ UNCHANGED <<hung, cancelled, applied, step, view, result, signals, requests, server>>

MountHangs ==
    /\ ~hung /\ hung' = TRUE
    /\ UNCHANGED <<disk, cancelled, applied, step, view, result, signals, requests, server>>

Shutdown ==
    /\ ~cancelled /\ cancelled' = TRUE
    /\ UNCHANGED <<disk, hung, applied, step, view, result, signals, requests, server>>

\* Fault: the channel has no room, only a waiting watcher gets the signal.
OnlyIfWaiting == pending \/ step["signal"] = "idle"

\* Notify drops a signal only when one is in the channel already.
Delivered == TRUE

Subscribed == step["signal"] \notin {"starting", "gone"}

SignalSent ==
    /\ Subscribed
    /\ pending' = Delivered /\ asked' = TRUE
    /\ UNCHANGED <<world, applied, step, view, result, requests, server>>

\* Nobody has subscribed to it yet, or any more: the signal ends the process.
SignalKills ==
    /\ ~Subscribed
    /\ server' = "killed"
    /\ UNCHANGED <<world, applied, step, view, result, signals, requests>>

-------------------------------------------------------------------------------
Reloading(c) ==
    Alive /\ (Enter(c) \/ Coalesce(c) \/ Resolve(c) \/ ResolveFails(c) \/ Apply(c))

RefreshLoop == Alive /\ (TimerTicks \/ Return("timer") \/ Quit("timer"))

Watcher == Alive /\ (Subscribe \/ TakeSignal \/ Return("signal") \/ Quit("signal"))

Handling(r) == Alive /\ (Finish(r) \/ AnswerInTime(r) \/ AnswerAccepted(r))

Ending == TurnUnhealthy \/ CloseListener \/ Stop

Environment ==
    Alive /\ (DiskChanges \/ MountHangs \/ Shutdown \/ SignalSent \/ SignalKills)

\* The process has come to its end.
Finished == ~Alive /\ UNCHANGED vars

Next ==
    \/ \E c \in Caller : Reloading(c)
    \/ RefreshLoop \/ Watcher
    \/ \E r \in Request : Post(r) \/ Handling(r)
    \/ Ending \/ ListenerFails \/ CutShort
    \/ Environment
    \/ Finished

Spec == Init /\ [][Next]_vars

\* Goroutines are scheduled, the ticker ticks and the handler's timer fires.  A
\* pass over the disk returns unless the mount hangs, which disables it.  That
\* shutdownTimeout passes is not relied on.
Fairness ==
    /\ \A c \in Caller : WF_vars(Reloading(c))
    /\ \A r \in Request : WF_vars(Handling(r))
    /\ WF_vars(RefreshLoop) /\ WF_vars(Watcher) /\ WF_vars(Ending)

FairSpec == Spec /\ Fairness

-------------------------------------------------------------------------------
(* Properties.                                                             *)

TypeOK ==
    /\ disk \in Nat /\ applied \in Nat
    /\ hung \in BOOLEAN /\ cancelled \in BOOLEAN /\ pending \in BOOLEAN /\ asked \in BOOLEAN
    /\ step \in [Caller -> {"starting", "idle", "called", "resolving", "applying", "returned",
                            "done", "gone"}]
    /\ view \in [Caller -> Nat]
    /\ result \in [Caller -> {"none", "ok", "error"}]
    /\ answer \in [Request -> {"none", "waiting", "reloaded", "failed", "accepted"}]
    /\ logged \subseteq Request
    /\ server \in Listening \cup {"draining"} \cup Over

\* A resolution is never replaced by an older one, whichever callers reload at
\* the same time: resolving and applying are two steps of the one that holds
\* the lock (application.reload).
NeverOlder == [][applied' >= applied]_vars

\* A reload that fails after its caller was told that it goes on is in the log,
\* and one that failed in time is answered as failed or is in the log.
FailuresAreHeard ==
    \A r \in Request : step[r] = "done" /\ result[r] = "error" =>
        answer[r] \in {"waiting", "failed"} \/ r \in logged

\* What is on disk is tracked in the end, although reloads fail while there are
\* too many targets and give way to each other: unless the mount hangs, with
\* the lock held for ever, or the process ends.
ChangeIsTracked ==
    <>[](hung \/ cancelled \/ ~Alive \/ disk \in TooMany \/ applied = disk)

\* A signal sent while the watcher is busy with an earlier one is acted on later.
SignalsAreHeeded == asked ~> (~asked \/ hung \/ cancelled \/ ~Alive)

\* Each reload request is answered, also when its reload hangs and when the
\* process is told to stop meanwhile: only an end of the process that does not
\* wait for handlers leaves one without an answer.
EveryRequestAnswered ==
    \A r \in Request :
        answer[r] = "waiting" ~> (answer[r] # "waiting" \/ server \in Over \ {"stopped"})

\* SIGTERM ends the process, also while a reload hangs on a mount for ever and a
\* request waits for it, and before the drain is cut short (application.serve).
ShutdownEnds == cancelled ~> ~Alive
===============================================================================
