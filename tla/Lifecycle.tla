------------------------------- MODULE Lifecycle -------------------------------
(***************************************************************************)
(* The life of the process: run (cmd/chaosproxy/server.go) with its two    *)
(* servers, their one deadline and the config watcher; the recorder        *)
(* (internal/report/report.go) whose callbacks stop the run; and the       *)
(* report and exit code main makes of it.                                  *)
(*                                                                         *)
(* net/http is modelled as run uses it.  Shutdown closes the listener,     *)
(* starts the functions registered with RegisterOnShutdown in goroutines   *)
(* of their own and waits for the connections the server tracks; a         *)
(* hijacked connection is not tracked.  Close cuts what is tracked.        *)
(***************************************************************************)
EXTENDS Integers, Sequences, FiniteSets

CONSTANTS
    Requests,     \* requests to the data plane
    Upgrades,     \* those whose handler may hijack the connection
    Limits,       \* values of --max-requests, 0 for none
    ExitOnError,  \* with --exit-on-error
    WatchConfig,  \* with --config
    None

ASSUME OptionsAssumption ==
    /\ Limits \subseteq Nat /\ Upgrades \subseteq Requests
    /\ ExitOnError \in BOOLEAN /\ WatchConfig \in BOOLEAN

\* "stream" is the name of the dashboard's connection among those Close cuts.
ASSUME NamesAssumption ==
    "stream" \notin Requests
      /\ None \notin {"data plane", "control plane", "max-requests", "error"}

VARIABLES
    maxRequests,  \* --max-requests
    signalled,    \* SIGINT or SIGTERM arrived
    cause,        \* why stopRun was cancelled
    stage,        \* where main is
    turn,         \* the server the loop over Shutdown is at
    server,       \* name -> the state of its ListenAndServe
    inShutdown,   \* servers whose Shutdown was called
    stopping,     \* servers whose BeginShutdown ran
    serverResults,    \* the channel: who returned, as its server says
    watcher,      \* the watcher's goroutine, then what it sent
    expired,      \* the server whose Shutdown the deadline passed in
    errorsSeen,   \* what went wrong in run
    request,      \* request -> where its handler is
    hijacked, failing,    \* requests whose connection was taken, that fail
    due,          \* request -> callbacks of the recorder it is to call
    stream,       \* a dashboard's GET /api/events
    cut,          \* connections Close cut
    recorded, limitReported, errorReported,    \* the recorder
    report, exitCode

mainVars == <<stage, turn, expired, errorsSeen, report, exitCode>>
serverVars == <<server, inShutdown, stopping, serverResults>>
handlerVars == <<request, hijacked, failing, due>>
recorder == <<recorded, limitReported, errorReported>>
vars == <<maxRequests, signalled, cause, mainVars, serverVars, watcher, handlerVars,
          stream, cut, recorder>>

Servers == {"data plane", "control plane"}
ShutdownError(s) == IF s = "data plane" THEN "shutdown data plane" ELSE "shutdown control plane"

(* The requests Recorder.errors counts. *)
Failures == recorded \cap failing

(* signalContext ends with a signal, with stopRun, and with run's select. *)
SignalContextDone == signalled \/ cause # None \/ stage # "select"

(* Connections whose end Shutdown waits for. *)
Tracked(s) ==
    IF s = "data plane"
    THEN {r \in Requests \ hijacked : request[r] \notin {"none", "done"}}
    ELSE {c \in {"stream"} : stream \in {"open", "stuck"}}

Init ==
    /\ maxRequests \in Limits
    /\ signalled = FALSE /\ cause = None /\ stage = "select" /\ turn = "data plane"
    /\ server = [s \in Servers |-> "starting"] /\ inShutdown = {} /\ stopping = {}
    /\ serverResults = <<>>
    /\ watcher = IF WatchConfig THEN "running" ELSE "read"
    /\ expired = None /\ errorsSeen = {}
    /\ request = [r \in Requests |-> "none"] /\ hijacked = {} /\ failing = {}
    /\ due = [r \in Requests |-> {}]
    /\ stream = "none" /\ cut = {}
    /\ recorded = {} /\ limitReported = FALSE /\ errorReported = FALSE
    /\ report = None /\ exitCode = 0

-------------------------------------------------------------------------------
(* The goroutines of the servers and of the watcher.                       *)

Listen(s) ==
    /\ server[s] = "starting" /\ s \notin inShutdown
    /\ server' = [server EXCEPT ![s] = "up"]
    /\ UNCHANGED <<inShutdown, stopping, serverResults>>

(* Bound: one server or the watcher fails by itself. *)
NothingFailed ==
    /\ \A s \in Servers : server[s] # "failed"
    /\ watcher # "failed" /\ "config watcher" \notin errorsSeen

(* ListenAndServe returns: for the shutdown, which is no error, or because *)
(* the port is taken or the listener broke.                                *)
ServeReturns(s) ==
    /\ server[s] \in {"starting", "up"}
    /\ \/ s \in inShutdown /\ server' = [server EXCEPT ![s] = "closed"]
       \/ /\ NothingFailed /\ (server[s] = "starting" \/ s \notin inShutdown)
          /\ server' = [server EXCEPT ![s] = "failed"]
    /\ serverResults' = Append(serverResults, s)
    /\ UNCHANGED <<inShutdown, stopping>>

serve(s) ==
    /\ stage # "exited"
    /\ Listen(s) \/ ServeReturns(s)
    /\ UNCHANGED <<maxRequests, signalled, cause, mainVars, watcher, handlerVars,
                   stream, cut, recorder>>

(* The goroutine Shutdown starts for a function of RegisterOnShutdown. *)
BeginShutdown(s) ==
    /\ stage # "exited" /\ s \in inShutdown \ stopping
    /\ stopping' = stopping \cup {s}
    /\ UNCHANGED <<maxRequests, signalled, cause, mainVars, server, inShutdown,
                   serverResults, watcher, handlerVars, stream, cut, recorder>>

(* Run returns nil when its context is done, or because fsnotify ended. *)
WatcherReturns ==
    /\ watcher = "running"
    /\ \/ SignalContextDone /\ watcher' = "nil"
       \/ NothingFailed /\ watcher' = "failed"
    /\ UNCHANGED <<maxRequests, signalled, cause, mainVars, serverVars, handlerVars,
                   stream, cut, recorder>>

(* signal.NotifyContext keeps catching signals until run returns: one that *)
(* comes after the select changes nothing.                                 *)
Signal ==
    /\ ~signalled /\ stage = "select"
    /\ signalled' = TRUE
    /\ UNCHANGED <<maxRequests, cause, mainVars, serverVars, watcher, handlerVars,
                   stream, cut, recorder>>

-------------------------------------------------------------------------------
(* Handlers of the data plane, and a stream of the control plane.          *)

Arrive(r) ==
    /\ request[r] = "none" /\ server["data plane"] = "up" /\ "data plane" \notin inShutdown
    /\ \E at \in {"forwarded", "waiting", "hijacked"} :
        /\ at = "hijacked" => r \in Upgrades
        /\ request' = [request EXCEPT ![r] = at]
        /\ hijacked' = IF at = "hijacked" THEN hijacked \cup {r} ELSE hijacked
    /\ UNCHANGED <<failing, due, cause, recorder>>

(* The API answers or fails, a tunnel ends, or the shutdown ends an injected *)
(* wait, which is no error.  Those of the API are, and so are a 101 that can *)
(* no longer be sent, on a hijacked connection, and an upload that its       *)
(* client, or Close, cuts off (RequestPipeline).                             *)
HandlerEnds(r) ==
    /\ \/ request[r] \in {"forwarded", "hijacked"}
       \/ request[r] = "waiting" /\ "data plane" \in stopping
    /\ \E failed \in BOOLEAN :
        /\ failed => request[r] \in {"forwarded", "hijacked"}
        /\ failing' = IF failed THEN failing \cup {r} ELSE failing
    /\ request' = [request EXCEPT ![r] = "publishing"]
    /\ UNCHANGED <<hijacked, due, cause, recorder>>

\* Mutant of record: one request more than the limit stops the run.
recordBeyondLimit(r) ==
    LET limitReached == /\ maxRequests > 0 /\ ~limitReported
                        /\ Cardinality(recorded \cup {r}) > maxRequests
        callbacks == (IF limitReached THEN {"max-requests"} ELSE {})
                         \cup (IF r \in failing /\ ~errorReported THEN {"error"} ELSE {})
    IN  /\ request[r] = "publishing"
        /\ recorded' = recorded \cup {r}
        /\ limitReported' = (limitReported \/ limitReached)
        /\ errorReported' = (errorReported \/ r \in failing)
        /\ due' = [due EXCEPT ![r] = callbacks]
        /\ request' = [request EXCEPT ![r] = IF callbacks = {} THEN "done" ELSE "notifying"]
        /\ UNCHANGED <<hijacked, failing, cause>>

(* Publish records the request under the mutex and calls the callbacks it owes *)
(* after it; only then does the handler return and its connection become idle. *)
record(r) ==
    LET limitReached == /\ maxRequests > 0 /\ ~limitReported
                        /\ Cardinality(recorded \cup {r}) >= maxRequests
        firstError == r \in failing /\ ~errorReported
        callbacks == (IF limitReached THEN {"max-requests"} ELSE {})
                         \cup (IF firstError /\ ExitOnError THEN {"error"} ELSE {})
    IN  /\ request[r] = "publishing"
        /\ recorded' = recorded \cup {r}
        /\ limitReported' = (limitReported \/ limitReached)
        /\ errorReported' = (errorReported \/ r \in failing)
        /\ due' = [due EXCEPT ![r] = callbacks]
        /\ request' = [request EXCEPT ![r] = IF callbacks = {} THEN "done" ELSE "notifying"]
        /\ UNCHANGED <<hijacked, failing, cause>>

(* OnMaxRequests before OnError; cancelling stopRun keeps the first cause. *)
Notify(r) ==
    LET reason == IF "max-requests" \in due[r] THEN "max-requests" ELSE "error"
    IN  /\ request[r] = "notifying"
        /\ cause' = IF cause = None THEN reason ELSE cause
        /\ due' = [due EXCEPT ![r] = @ \ {reason}]
        /\ request' = [request EXCEPT ![r] = IF due'[r] = {} THEN "done" ELSE "notifying"]
        /\ UNCHANGED <<hijacked, failing, recorder>>

ServeHTTP(r) ==
    /\ stage # "exited"
    /\ Arrive(r) \/ HandlerEnds(r) \/ record(r) \/ Notify(r)
    /\ UNCHANGED <<maxRequests, signalled, mainVars, serverVars, watcher, stream, cut>>

OpenStream ==
    /\ stream = "none" /\ server["control plane"] = "up" /\ "control plane" \notin inShutdown
    /\ stream' = "open"

(* A client that keeps its connection and does not read. *)
StopReading == stream = "open" /\ stream' = "stuck"

Disconnect == stream \in {"open", "stuck"} /\ stream' = "none"

(* streamEvents sees "stopping" unless it hangs in a write. *)
StreamEnds ==
    /\ stream = "open" /\ "control plane" \in stopping
    /\ stream' = "none"

streamEvents ==
    /\ stage # "exited"
    /\ OpenStream \/ StopReading \/ Disconnect \/ StreamEnds
    /\ UNCHANGED <<maxRequests, signalled, cause, mainVars, serverVars, watcher, handlerVars,
                   cut, recorder>>

-------------------------------------------------------------------------------
(* run.                                                                    *)

errorOf(name) == IF server[name] = "failed" THEN {name} ELSE {}

SelectResult ==
    /\ stage = "select" /\ serverResults # <<>>
    /\ serverResults' = Tail(serverResults)
    /\ errorsSeen' = errorOf(Head(serverResults))
    /\ stage' = "shutdown"
    /\ UNCHANGED <<turn, server, inShutdown, stopping, watcher, cut, expired, report, exitCode>>

SelectWatcher ==
    /\ stage = "select" /\ watcher \in {"nil", "failed"}
    /\ watcher' = "read"
    /\ errorsSeen' = IF watcher = "failed" \/ ~SignalContextDone THEN {"config watcher"} ELSE {}
    /\ stage' = "shutdown"
    /\ UNCHANGED <<turn, serverVars, cut, expired, report, exitCode>>

SelectSignal ==
    /\ stage = "select" /\ SignalContextDone
    /\ stage' = "shutdown"
    /\ UNCHANGED <<turn, serverVars, watcher, cut, expired, errorsSeen, report, exitCode>>

NextServer(s) ==
    /\ stage' = IF s = "data plane" THEN "shutdown" ELSE "collect"
    /\ turn' = "control plane"

Shutdown(s) ==
    /\ stage = "shutdown" /\ turn = s
    /\ inShutdown' = inShutdown \cup {s}
    /\ stage' = "drain"
    /\ UNCHANGED <<turn, server, stopping, serverResults, watcher, cut, expired, errorsSeen,
                   report, exitCode>>

\* Mutant of Drained: the servers are shut down in the background.
DrainedAtOnce(s) ==
    /\ stage = "drain" /\ turn = s
    /\ NextServer(s)
    /\ UNCHANGED <<serverVars, watcher, cut, expired, errorsSeen, report, exitCode>>

(* Shutdown waits for Serve to return, then for the connections. *)
Drained(s) ==
    /\ stage = "drain" /\ turn = s /\ server[s] # "up" /\ Tracked(s) = {}
    /\ NextServer(s)
    /\ UNCHANGED <<serverVars, watcher, cut, expired, errorsSeen, report, exitCode>>

\* Mutant of TimedOut: the deadline is derived from the context run has cancelled.
TimedOutAtOnce(s) ==
    /\ stage = "drain" /\ turn = s /\ server[s] # "up" /\ Tracked(s) # {}
    /\ errorsSeen' = errorsSeen \cup {ShutdownError(s)}
    /\ cut' = cut \cup Tracked(s)
    /\ NextServer(s)
    /\ UNCHANGED <<serverVars, watcher, expired, report, exitCode>>

(* ... and looks at the connections before it looks at the deadline. *)
TimedOut(s) ==
    /\ stage = "drain" /\ turn = s /\ server[s] # "up" /\ Tracked(s) # {} /\ expired # None
    /\ errorsSeen' = errorsSeen \cup {ShutdownError(s)}
    /\ cut' = cut \cup Tracked(s)
    /\ NextServer(s)
    /\ UNCHANGED <<serverVars, watcher, expired, report, exitCode>>

CollectResult ==
    /\ stage = "collect" /\ serverResults # <<>>
    /\ serverResults' = Tail(serverResults)
    /\ errorsSeen' = errorsSeen \cup errorOf(Head(serverResults))
    /\ UNCHANGED <<stage, turn, server, inShutdown, stopping, watcher, cut, expired, report, exitCode>>

(* Both results were read, and then the watcher's. *)
AwaitWatcher ==
    /\ stage = "collect" /\ serverResults = <<>>
    /\ \A s \in Servers : server[s] \in {"closed", "failed"}
    /\ watcher # "running"
    /\ watcher' = "read"
    /\ errorsSeen' = IF watcher = "failed" THEN errorsSeen \cup {"config watcher"} ELSE errorsSeen
    /\ exitCode' = IF errorsSeen' = {} THEN 0 ELSE 1
    /\ stage' = "reason"
    /\ UNCHANGED <<turn, serverVars, cut, expired, report>>

run ==
    \/ SelectResult \/ SelectWatcher \/ SelectSignal
    \/ \E s \in Servers : Shutdown(s) \/ Drained(s) \/ TimedOut(s)
    \/ CollectResult \/ AwaitWatcher

-------------------------------------------------------------------------------
(* main, after run.                                                        *)

\* Mutant of stopReason: an error of run comes before the cause.
stopReasonOfRun ==
    IF errorsSeen # {} THEN "server-error" ELSE IF cause # None THEN cause ELSE "signal"

stopReason ==
    IF cause # None THEN cause ELSE IF errorsSeen # {} THEN "server-error" ELSE "signal"

Reason ==
    /\ stage = "reason"
    /\ report' = [stoppedBy |-> stopReason, requests |-> {}, errors |-> {}, written |-> FALSE]
    /\ stage' = "report"
    /\ UNCHANGED exitCode

\* Mutant of Report: a request counts from its arrival.
ReportOfArrivals ==
    /\ stage = "report"
    /\ report' = [report EXCEPT !.requests = {r \in Requests : request[r] # "none"},
                                !.errors = Failures]
    /\ stage' = "write"
    /\ UNCHANGED exitCode

(* Recorder.Report, under the recorder's mutex.  A total is the set of the *)
(* requests it counts.                                                     *)
Report ==
    /\ stage = "report"
    /\ report' = [report EXCEPT !.requests = recorded, !.errors = Failures]
    /\ stage' = "write"
    /\ UNCHANGED exitCode

WriteFile ==
    /\ stage = "write"
    /\ \E written \in BOOLEAN :
        /\ report' = [report EXCEPT !.written = written]
        /\ exitCode' = IF written THEN exitCode ELSE 1
    /\ stage' = "count"

\* Mutant of ErrorCount: the exit code goes by what stopped the run.
ErrorCountOfCause ==
    /\ stage = "count"
    /\ exitCode' = IF ExitOnError /\ report.stoppedBy = "error" THEN 1 ELSE exitCode
    /\ stage' = "exited"
    /\ UNCHANGED report

ErrorCount ==
    /\ stage = "count"
    /\ exitCode' = IF ExitOnError /\ Failures # {} THEN 1 ELSE exitCode
    /\ stage' = "exited"
    /\ UNCHANGED report

finish ==
    /\ Reason \/ Report \/ WriteFile \/ ErrorCount
    /\ UNCHANGED <<turn, serverVars, watcher, cut, expired, errorsSeen>>

main ==
    /\ run \/ finish
    /\ UNCHANGED <<maxRequests, signalled, cause, handlerVars, stream, recorder>>

(* Ten seconds are long against what goroutines do by themselves: at the   *)
(* deadline only what waits for a peer is left, the API or a client that   *)
(* does not read.                                                          *)
Slow(s) ==
    IF s = "data plane" THEN \A r \in Tracked(s) : request[r] = "forwarded" ELSE stream = "stuck"

Expire ==
    /\ expired = None
    /\ \E s \in Servers : /\ stage = "drain" /\ turn = s /\ server[s] # "up" /\ s \in stopping
                          /\ Tracked(s) # {} /\ Slow(s)
    /\ expired' = turn
    /\ UNCHANGED <<maxRequests, signalled, cause, stage, turn, errorsSeen, report, exitCode,
                   serverVars, watcher, handlerVars, stream, cut, recorder>>

-------------------------------------------------------------------------------
Done == stage = "exited" /\ UNCHANGED vars

Next ==
    \/ \E s \in Servers : serve(s) \/ BeginShutdown(s)
    \/ WatcherReturns \/ Signal
    \/ \E r \in Requests : ServeHTTP(r)
    \/ streamEvents \/ main \/ Expire \/ Done

Spec == Init /\ [][Next]_vars

(* Nothing is assumed of a peer: the API may never answer, a client may never *)
(* read or leave.  Goroutines run, and the deadline passes.                   *)
Working(r) ==
    request[r] \in {"publishing", "notifying", "waiting"} \/ r \in cut

FairSpec ==
    /\ Spec
    /\ \A s \in Servers : WF_vars(s \in inShutdown /\ serve(s)) /\ WF_vars(BeginShutdown(s))
    /\ WF_vars(SignalContextDone /\ WatcherReturns)
    /\ \A r \in Requests : WF_vars(Working(r) /\ ServeHTTP(r))
    /\ WF_vars(stream = "open" /\ "control plane" \in stopping /\ streamEvents)
    /\ WF_vars(main) /\ WF_vars(Expire)

-------------------------------------------------------------------------------
(* The variables have their types; connections are tracked or hijacked, the     *)
(* channel of results never holds more than one of each server, and the report  *)
(* counts what was published.                                                   *)
TypeOK ==
    /\ maxRequests \in Limits
    /\ signalled \in BOOLEAN /\ cause \in {None, "max-requests", "error"}
    /\ stage \in {"select", "shutdown", "drain", "collect", "reason", "report",
                  "write", "count", "exited"}
    /\ turn \in Servers
    /\ server \in [Servers -> {"starting", "up", "closed", "failed"}]
    /\ stopping \subseteq inShutdown /\ inShutdown \subseteq Servers
    /\ serverResults \in Seq(Servers) /\ Len(serverResults) <= Cardinality(Servers)
    /\ watcher \in {"running", "nil", "failed", "read"}
    /\ expired \in Servers \cup {None}
    /\ errorsSeen \subseteq Servers \cup {"config watcher"} \cup {ShutdownError(s) : s \in Servers}
    /\ request \in [Requests -> {"none", "forwarded", "waiting", "hijacked", "publishing",
                                 "notifying", "done"}]
    /\ hijacked \subseteq Requests /\ failing \subseteq Requests
    /\ due \in [Requests -> SUBSET {"max-requests", "error"}]
    /\ stream \in {"none", "open", "stuck"}
    /\ cut \subseteq Requests \cup {"stream"} /\ cut \cap hijacked = {}
    /\ recorded \subseteq Requests /\ limitReported \in BOOLEAN /\ errorReported \in BOOLEAN
    /\ exitCode \in {0, 1}
    /\ report # None => report.requests \subseteq recorded /\ report.errors \subseteq Failures

(* The report counts every request the data plane accepted, although handlers   *)
(* publish after they answered: Shutdown waits for them (server.go:120).  Only  *)
(* requests whose connection was hijacked, or that outlasted the deadline, may  *)
(* be missing.                                                                  *)
ReportIsComplete ==
    stage \in {"write", "count", "exited"} /\ ShutdownError("data plane") \notin errorsSeen =>
        {r \in Requests \ hijacked : request[r] # "none"} \subseteq report.requests

(* What stopReason says is borne out by the same report: the limit was reached, *)
(* an error was counted, a server failed, a signal arrived; and an error that   *)
(* --exit-on-error was to stop for is not put down to a signal.  A request that *)
(* outlasts the deadline, or one that failed on a hijacked connection, which    *)
(* Shutdown does not wait for, may still be on its way to the cause.            *)
StopReasonIsTrue ==
    stage \in {"write", "count", "exited"} =>
        /\ CASE report.stoppedBy = "max-requests" ->
                   maxRequests > 0 /\ Cardinality(report.requests) >= maxRequests
             [] report.stoppedBy = "error" -> ExitOnError /\ report.errors # {}
             [] report.stoppedBy = "server-error" -> errorsSeen # {}
             [] report.stoppedBy = "signal" -> signalled
        /\ /\ ExitOnError /\ expired = None
           /\ report.errors # {} /\ report.errors \cap hijacked = {}
           => report.stoppedBy \in {"error", "max-requests"}

(* Whoever runs the proxy in CI reads the exit code and the report: errors in   *)
(* the report fail a run with --exit-on-error, whatever stopped it, and a run   *)
(* that fails has an error in the report or in run, or its report was not       *)
(* written.  The report and ErrorCount are two reads of the recorder            *)
(* (main.go:117, 130), between which a request may fail that Shutdown did not   *)
(* wait for: it outlasted the deadline, which is an error in run, or it was     *)
(* hijacked, and then the report may lack the error that the exit code is for.  *)
ReportExplainsExitCode ==
    stage = "exited" =>
        /\ ExitOnError /\ report.errors # {} => exitCode = 1
        /\ exitCode = 1 /\ report.written =>
               \/ errorsSeen # {}
               \/ ExitOnError /\ (report.errors # {} \/ Failures \cap hijacked # {})

(* The deadline cuts what is slow by itself: never an injected wait, which the  *)
(* shutdown ends, and never a dashboard that reads, unless the data plane has   *)
(* used the deadline up.                                                        *)
OnlySlowPeersAreCut ==
    [][\A c \in cut' \ cut :
          IF c = "stream" THEN stream = "stuck" \/ expired = "data plane"
                          ELSE request[c] # "waiting"]_vars

(* The program ends: after a signal, at the request limit, at the first error   *)
(* with --exit-on-error, and when a server or the watcher fails, however slow   *)
(* the API and the dashboards are.                                              *)
RunEnds ==
    (\/ signalled
     \/ maxRequests > 0 /\ Cardinality(recorded) >= maxRequests
     \/ ExitOnError /\ Failures # {}
     \/ watcher = "failed" \/ \E s \in Servers : server[s] = "failed") ~> stage = "exited"
================================================================================
