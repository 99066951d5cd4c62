---------------------------- MODULE RequestPipeline ----------------------------
(***************************************************************************)
(* One request through the data plane (internal/proxy/handler.go): its     *)
(* fault chain before forwarding, the reverse proxy, the chain on the      *)
(* response, and the event it leaves (observability.go), while its client  *)
(* may leave and the program may begin to shut down at any step.           *)
(*                                                                         *)
(* Requests share "stopping" and the decision counters (DataPlane.tla), so *)
(* one is enough here.  A probability is a choice.  The reverse proxy of   *)
(* net/http/httputil is modelled as the handler uses it: what it calls,    *)
(* what it writes, and that it panics to abort a response it cannot        *)
(* finish.  It notices that a client left only when it reads from it: by   *)
(* itself once the request's body was read, and before that when the       *)
(* transport reads more of the body.                                       *)
(***************************************************************************)
EXTENDS Integers, Sequences

CONSTANTS
    Chains,           \* sets of faults a rule, a scenario step or a header configures
    InjectedCodes,    \* codes of status faults
    UpstreamCodes,    \* codes of the API's final responses; 101 switches protocols
    EarlyHints,       \* the API may send a 103 before its final response
    HijackResults,    \* {TRUE} for HTTP/1, {FALSE} for a server of HTTP/2
    Uploads,          \* is the request's body "read" with its header, or "unread"
    None

BeforeFaults == {"latency", "reset", "status", "redirect", "hang"}
BodyFaults == {"mutate", "truncate", "stall", "bandwidth"}
FaultNames == BeforeFaults \cup BodyFaults \cup {"headers"}

ASSUME InputsAssumption ==
    /\ Chains \subseteq SUBSET FaultNames
    /\ InjectedCodes \subseteq 100 .. 599
    /\ UpstreamCodes \subseteq {101} \cup 200 .. 599
    /\ EarlyHints \in BOOLEAN
    /\ HijackResults \subseteq BOOLEAN
    /\ Uploads \subseteq {"unread", "read"}

ASSUME NoneAssumption ==
    /\ None \notin {"invalid header", "before hook", "no hijack", "shutting down", "after hook",
                   "unreachable", "canceled", "upload", "broken", "not writable", "not flushed",
                   "whole", "cut", "returned", "panicked", "hijacked"}
    /\ None # 101

VARIABLES
    pc,               \* where ServeHTTP is
    client,           \* "waiting" or "gone"
    upload,           \* the request's body: "unread" in part, "read" or "aborted"
    stopping,         \* BeginShutdown was called
    cancelled,        \* the shutdown has reached the context of this request's faults
    chain, todo,      \* the faults of the chain, and those left in this phase, in order
    faults,           \* metrics.faults
    pipelineError, proxyError,
    body,             \* the faults that replaced or wrapped the response's body
    status,           \* statusResponseWriter.status
    wire,             \* the final status net/http has sent, or 0
    ended,            \* how the handler ended: it returned, panicked or hijacked
    events,           \* what was published
    (* History, read by the properties only. *)
    called,           \* the API was called
    answer,           \* the status of its response
    outcome,          \* what became of its body
    failures          \* what failed that the proxy did not inject

contextVars == <<client, upload, stopping, cancelled>>
chainVars == <<chain, todo>>
metricsVars == <<faults, pipelineError, proxyError>>
responseVars == <<status, wire, ended>>
upstreamVars == <<called, answer, outcome, body>>
pipelineVars == <<pc, contextVars, chainVars, metricsVars, responseVars,
                  upstreamVars, failures, events>>

-------------------------------------------------------------------------------
(* Chains, contexts and the status writer.                                 *)

\* A fault of the chain, if the rule configures it.
Configured(f, rule) == IF f \in rule THEN <<f>> ELSE <<>>

\* Mutant of Build: the chain cuts a body before it mutates it.
BuildTruncatesFirst(rule) ==
    Configured("latency", rule) \o Configured("reset", rule) \o Configured("status", rule)
        \o Configured("redirect", rule) \o Configured("hang", rule)
        \o Configured("truncate", rule) \o Configured("mutate", rule)
        \o Configured("headers", rule)
        \o Configured("stall", rule) \o Configured("bandwidth", rule)

Build(rule) ==
    Configured("latency", rule) \o Configured("reset", rule) \o Configured("status", rule)
        \o Configured("redirect", rule) \o Configured("hang", rule)
        \o Configured("mutate", rule) \o Configured("headers", rule)
        \o Configured("truncate", rule)
        \o Configured("stall", rule) \o Configured("bandwidth", rule)

\* The context of the request, which the server cancels when reading from the
\* client fails.
RequestContextDone == client = "gone" /\ upload # "unread"

\* Mutant of FaultContextDone: faults wait with the request's own context.
FaultContextIgnoresShutdown == RequestContextDone

\* Mutant of FaultContextDone: its context does not derive from the request's.
FaultContextIgnoresClient == cancelled

\* The context faults wait with ends with the request's or with the program.
FaultContextDone == RequestContextDone \/ cancelled

\* Mutant of ForwardContextDone: the request with the faults' context is forwarded.
ForwardFaultContext == RequestContextDone \/ cancelled

\* The context of the request that is forwarded.
ForwardContextDone == RequestContextDone

Informational(code) == code \in 100 .. 199 \ {101}

\* The first status is kept and passed on, and later ones are not.
WriteHeader(code) ==
    /\ status' = IF status = 0 THEN code ELSE status
    /\ wire' = IF status # 0 \/ Informational(code) THEN wire ELSE code

End(how) == pc' = "finish" /\ ended' = how

Reply(code) == WriteHeader(code) /\ End("returned")

-------------------------------------------------------------------------------
Init ==
    /\ pc = "arrive"
    /\ client = "waiting"
    /\ upload \in Uploads
    /\ stopping = FALSE
    /\ cancelled = FALSE
    /\ chain = {}
    /\ todo = <<>>
    /\ faults = <<>>
    /\ pipelineError = None
    /\ proxyError = None
    /\ body = {}
    /\ status = 0
    /\ wire = 0
    /\ ended = None
    /\ events = <<>>
    /\ called = FALSE
    /\ answer = None
    /\ outcome = None
    /\ failures = {}

(* The client and the shutdown.                                            *)

\* HTTP/2 ends the upload with it.
ClientLeaves ==
    /\ client = "waiting"
    /\ pc # "done"
    /\ client' = "gone"
    /\ \/ UNCHANGED upload
       \/ upload = "unread" /\ FALSE \in HijackResults /\ upload' = "aborted"
    /\ UNCHANGED <<pc, stopping, cancelled, chainVars, metricsVars, responseVars,
                   upstreamVars, failures, events>>

BeginShutdown ==
    /\ ~stopping
    /\ stopping' = TRUE
    /\ UNCHANGED <<pc, client, upload, cancelled, chainVars, metricsVars, responseVars,
                   upstreamVars, failures, events>>

\* context.AfterFunc cancels in a goroutine of its own, until it is released.
ShutdownCancels ==
    /\ stopping /\ ~cancelled
    /\ chain # {}
    /\ pc \notin {"finish", "done"}
    /\ cancelled' = TRUE
    /\ UNCHANGED <<pc, client, upload, stopping, chainVars, metricsVars, responseVars,
                   upstreamVars, failures, events>>

(* Selection.                                                              *)

handlePreflight ==
    /\ pc = "arrive"
    /\ Reply(204)
    /\ UNCHANGED <<contextVars, chainVars, metricsVars, upstreamVars, failures, events>>

RejectHeader ==
    /\ pc = "arrive"
    /\ pipelineError' = "invalid header"
    /\ failures' = failures \cup {"header"}
    /\ Reply(400)
    /\ UNCHANGED <<contextVars, chainVars, faults, proxyError, upstreamVars, events>>

\* An empty chain goes straight to the API.
SelectChain ==
    /\ pc = "arrive"
    /\ \E rule \in Chains :
          /\ chain' = rule
          /\ todo' = Build(rule \cap BeforeFaults)
          /\ pc' = IF rule = {} THEN "forward" ELSE "before"
    /\ UNCHANGED <<contextVars, metricsVars, responseVars, upstreamVars, failures, events>>

(* Faults before the API.  A fault triggers, or Skip passes it.            *)

Reaches(phase, f) == pc = phase /\ todo # <<>> /\ Head(todo) = f

Emit(f) == faults' = Append(faults, f)

Skip ==
    /\ \E f \in FaultNames \ {"latency", "bandwidth"} : Reaches(pc, f)
    /\ pc \in {"before", "after"}
    /\ todo' = Tail(todo)
    /\ UNCHANGED <<pc, contextVars, chain, metricsVars, responseVars, upstreamVars,
                   failures, events>>

Wait ==
    /\ Reaches("before", "latency")
    /\ pc' = IF FaultContextDone THEN "failed" ELSE "wait"
    /\ UNCHANGED <<contextVars, chainVars, metricsVars, responseVars, upstreamVars,
                   failures, events>>

Elapse ==
    /\ pc = "wait"
    /\ pc' = "before"
    /\ todo' = Tail(todo)
    /\ Emit("latency")
    /\ UNCHANGED <<contextVars, chain, pipelineError, proxyError, responseVars,
                   upstreamVars, failures, events>>

InterruptWait ==
    /\ pc = "wait"
    /\ FaultContextDone
    /\ pc' = "failed"
    /\ UNCHANGED <<contextVars, chainVars, metricsVars, responseVars, upstreamVars,
                   failures, events>>

rejectDuringShutdown == pipelineError' = "shutting down" /\ Reply(503)

\* Why a wait failed is asked afterwards, when more may have happened; the last
\* case would be a hook that failed by itself, which none of today's does.
Failed ==
    /\ pc = "failed"
    /\ CASE RequestContextDone ->
              End("returned") /\ UNCHANGED <<pipelineError, failures, status, wire>>
         [] ~RequestContextDone /\ stopping ->
              rejectDuringShutdown /\ UNCHANGED failures
         [] OTHER ->
              /\ pipelineError' = "before hook"
              /\ failures' = failures \cup {"before hook"}
              /\ Reply(500)
    /\ UNCHANGED <<contextVars, chainVars, faults, proxyError, upstreamVars, events>>

resetConnection ==
    /\ Reaches("before", "reset")
    /\ Emit("reset")
    /\ \E hijacked \in HijackResults :
          /\ pipelineError' = IF hijacked THEN pipelineError ELSE "no hijack"
          /\ failures' = failures \cup (IF hijacked THEN {} ELSE {"no hijack"})
          /\ End(IF hijacked THEN "hijacked" ELSE "panicked")
    /\ UNCHANGED <<contextVars, chainVars, proxyError, status, wire, upstreamVars, events>>

\* Mutant of ShortCircuit: what a fault answers does not stop runBefore.
ShortCircuitGoesOn(f, code) ==
    /\ Reaches("before", f)
    /\ Emit(f)
    /\ todo' = Tail(todo)
    /\ WriteHeader(code)
    /\ UNCHANGED <<pc, ended, contextVars, chain, pipelineError, proxyError,
                   upstreamVars, failures, events>>

ShortCircuit(f, code) ==
    /\ Reaches("before", f)
    /\ Emit(f)
    /\ Reply(code)
    /\ UNCHANGED <<contextVars, chainVars, pipelineError, proxyError, upstreamVars,
                   failures, events>>

Status == \E code \in InjectedCodes : ShortCircuit("status", code)

Redirect == ShortCircuit("redirect", 302)

Hang ==
    /\ Reaches("before", "hang")
    /\ Emit("hang")
    /\ pc' = "hang"
    /\ UNCHANGED <<contextVars, chainVars, pipelineError, proxyError, responseVars,
                   upstreamVars, failures, events>>

\* Mutant of HangOver: a hang always ends without an answer.
HangOverSilently ==
    /\ pc = "hang"
    /\ FaultContextDone
    /\ End("returned")
    /\ UNCHANGED <<contextVars, chainVars, metricsVars, status, wire, upstreamVars,
                   failures, events>>

HangOver ==
    /\ pc = "hang"
    /\ FaultContextDone
    /\ IF RequestContextDone
       THEN End("returned") /\ UNCHANGED <<pipelineError, status, wire>>
       ELSE rejectDuringShutdown
    /\ UNCHANGED <<contextVars, chainVars, faults, proxyError, upstreamVars, failures,
                   events>>

(* The API.                                                                *)

\* The request itself is forwarded, not the one whose context ends on shutdown.
Forward ==
    /\ pc = "forward" \/ (pc = "before" /\ todo = <<>>)
    /\ pc' = "upstream"
    /\ called' = TRUE
    /\ todo' = Build(chain \ BeforeFaults)
    /\ UNCHANGED <<contextVars, chain, metricsVars, responseVars, answer, outcome, body,
                   failures, events>>

\* The transport reads on, and so does the server to send a response; a client that
\* left may have sent all of the body before.
ReadUpload ==
    /\ pc \in {"upstream", "after", "copy", "pause"}
    /\ upload = "unread"
    /\ upload' \in {"read"} \cup (IF client = "gone" THEN {"aborted"} ELSE {})
    /\ UNCHANGED <<pc, client, stopping, cancelled, chainVars, metricsVars, responseVars,
                   upstreamVars, failures, events>>

\* httputil passes the API's interim responses to the status writer.
Hints ==
    /\ pc = "upstream"
    /\ EarlyHints
    /\ WriteHeader(103)
    /\ UNCHANGED <<pc, ended, contextVars, chainVars, metricsVars, upstreamVars, failures,
                   events>>

\* What httputil calls when it has no response to pass on.
handleProxyError(why) == proxyError' = why /\ Reply(502)

Unreachable ==
    /\ pc = "upstream"
    /\ handleProxyError("unreachable")
    /\ failures' = failures \cup {"upstream"}
    /\ UNCHANGED <<contextVars, chainVars, faults, pipelineError, upstreamVars, events>>

\* What ends the wait for a response first, the context of a request whose client
\* left,
Abandon ==
    /\ pc = "upstream"
    /\ ForwardContextDone
    /\ handleProxyError("canceled")
    /\ UNCHANGED <<contextVars, chainVars, faults, pipelineError, upstreamVars, failures,
                   events>>

\* or the failure to read what the client still had to send, is its error.
UploadFails ==
    /\ pc = "upstream"
    /\ upload = "aborted"
    /\ handleProxyError("upload")
    /\ UNCHANGED <<contextVars, chainVars, faults, pipelineError, upstreamVars, failures,
                   events>>

Respond ==
    /\ pc = "upstream"
    /\ answer' \in UpstreamCodes
    /\ pc' = "after"
    /\ UNCHANGED <<contextVars, chainVars, metricsVars, responseVars, called, outcome, body,
                   failures, events>>

(* Faults on the response (modifyResponse).                                *)

\* "mutate" reads a JSON body, replaces it, and is reported if that changed it.
Mutate ==
    /\ Reaches("after", "mutate")
    /\ answer # 101
    /\ \E changed \in BOOLEAN : faults' = faults \o (IF changed THEN <<"mutate">> ELSE <<>>)
    /\ body' = body \cup {"mutate"}
    /\ todo' = Tail(todo)
    /\ UNCHANGED <<pc, contextVars, chain, pipelineError, proxyError, responseVars, called,
                   answer, outcome, failures, events>>

ChangeHeaders ==
    /\ Reaches("after", "headers")
    /\ Emit("headers")
    /\ todo' = Tail(todo)
    /\ UNCHANGED <<pc, contextVars, chain, pipelineError, proxyError, responseVars,
                   upstreamVars, failures, events>>

WrapBody(f) ==
    /\ Reaches("after", f)
    /\ Emit(f)
    /\ body' = body \cup {f}
    /\ todo' = Tail(todo)
    /\ UNCHANGED <<pc, contextVars, chain, pipelineError, proxyError, responseVars, called,
                   answer, outcome, failures, events>>

Truncate == WrapBody("truncate")

Stall == WrapBody("stall")

Throttle == WrapBody("bandwidth")

\* A hook reads the API's body, all of it or up to a limit, and reading fails: the
\* API broke it, or the transport gave up the connection for the client's sake.
AfterFails(why) ==
    /\ Reaches("after", "mutate") \/ (Reaches("after", "truncate") /\ "mutate" \notin body)
    /\ answer # 101
    /\ why = "canceled" => ForwardContextDone
    /\ why = "upload" => upload = "aborted"
    /\ pipelineError' = "after hook"
    /\ handleProxyError(why)
    /\ failures' = failures \cup (IF why = "broken" THEN {"upstream"} ELSE {})
    /\ UNCHANGED <<contextVars, chainVars, faults, upstreamVars, events>>

(* The response on its way to the client.                                  *)

Deliver ==
    /\ pc = "after" /\ todo = <<>>
    /\ answer # 101
    /\ WriteHeader(answer)
    /\ pc' = "copy"
    /\ UNCHANGED <<ended, contextVars, chainVars, metricsVars, upstreamVars, failures, events>>

\* httputil hijacks the connection and writes the 101 itself.
SwitchProtocols ==
    /\ pc = "after" /\ todo = <<>>
    /\ answer = 101 /\ body = {}
    /\ wire' = 101
    /\ pc' = "tunnel"
    /\ UNCHANGED <<status, ended, contextVars, chainVars, metricsVars, upstreamVars,
                   failures, events>>

\* A client that left by then does not get it, and the error is handled on a
\* connection that is no longer the server's.
SwitchFails ==
    /\ pc = "after" /\ todo = <<>>
    /\ answer = 101 /\ body = {}
    /\ client = "gone"
    /\ proxyError' = "not flushed"
    /\ status' = IF status = 0 THEN 502 ELSE status
    /\ End("hijacked")
    /\ UNCHANGED <<wire, contextVars, chainVars, faults, pipelineError, upstreamVars,
                   failures, events>>

\* It needs a body that can be written to, which no fault's wrapper can.
RefuseSwitch ==
    /\ pc = "after" /\ todo = <<>>
    /\ answer = 101 /\ body # {}
    /\ handleProxyError("not writable")
    /\ UNCHANGED <<contextVars, chainVars, faults, pipelineError, upstreamVars, failures,
                   events>>

TunnelEnds ==
    /\ pc = "tunnel"
    /\ End("hijacked")
    /\ UNCHANGED <<contextVars, chainVars, metricsVars, status, wire, upstreamVars, failures,
                   events>>

\* httputil panics when a body cannot be copied, and net/http closes the connection.
CopyEnds(how) ==
    /\ outcome' = how
    /\ End(IF how = "whole" THEN "returned" ELSE "panicked")
    /\ failures' = failures \cup (IF how = "broken" THEN {"upstream"} ELSE {})
    /\ UNCHANGED <<contextVars, chainVars, metricsVars, status, wire, called, answer, body,
                   events>>

Copied == pc = "copy" /\ "truncate" \notin body /\ CopyEnds("whole")

Truncated == pc = "copy" /\ "truncate" \in body /\ CopyEnds("cut")

Broken == pc = "copy" /\ "mutate" \notin body /\ CopyEnds("broken")

CopyFails == pc = "copy" /\ ForwardContextDone /\ CopyEnds("cut")

\* Nothing can be written to a client that left, whether the server knows or not.
WriteFails == pc = "copy" /\ client = "gone" /\ CopyEnds("cut")

\* A stalled body pauses once, and a throttled one after every read.
Pause ==
    /\ pc = "copy"
    /\ ~FaultContextDone
    /\ \/ "stall" \in body /\ body' = body \ {"stall"}
       \/ "bandwidth" \in body /\ UNCHANGED body
    /\ pc' = "pause"
    /\ UNCHANGED <<contextVars, chainVars, metricsVars, responseVars, called, answer, outcome,
                   failures, events>>

PauseRefused ==
    /\ pc = "copy"
    /\ body \cap {"stall", "bandwidth"} # {}
    /\ FaultContextDone
    /\ CopyEnds("cut")

PauseOver ==
    /\ pc = "pause"
    /\ pc' = "copy"
    /\ UNCHANGED <<contextVars, chainVars, metricsVars, responseVars, upstreamVars, failures,
                   events>>

InterruptPause == pc = "pause" /\ FaultContextDone /\ CopyEnds("cut")

(* The end (finishRequest, which is deferred).                             *)

requestError == IF pipelineError # None THEN pipelineError ELSE proxyError

\* Mutant of eventError: a rejection during shutdown is an error.
eventErrorOfRejections == IF proxyError = "canceled" THEN None ELSE requestError

eventError ==
    IF pipelineError = "shutting down" \/ proxyError = "canceled" THEN None ELSE requestError

\* A handler that returns without a final status leaves net/http to send 200.
finishRequest ==
    /\ pc = "finish"
    /\ pc' = "done"
    /\ events' = Append(events, [status |-> status, faults |-> faults, error |-> eventError])
    /\ wire' = IF ended = "returned" /\ wire = 0 THEN 200 ELSE wire
    /\ UNCHANGED <<contextVars, chainVars, metricsVars, status, ended, upstreamVars, failures>>

-------------------------------------------------------------------------------
\* The steps that wait for nothing but the processor.
Handle ==
    \/ handlePreflight \/ RejectHeader \/ SelectChain
    \/ Skip \/ Wait \/ InterruptWait \/ Failed \/ resetConnection
    \/ Status \/ Redirect \/ Hang \/ HangOver
    \/ Forward \/ Abandon \/ UploadFails
    \/ ChangeHeaders \/ Truncate \/ Stall \/ Throttle
    \/ AfterFails("canceled") \/ AfterFails("upload")
    \/ Deliver \/ SwitchProtocols \/ SwitchFails \/ RefuseSwitch
    \/ Truncated \/ CopyFails \/ PauseRefused \/ InterruptPause
    \/ finishRequest

\* The steps that wait for a timer.
Timers == Elapse \/ Pause \/ PauseOver

\* The steps that wait for bytes of the API, of the client or of a tunnel.
Upstream ==
    \/ ReadUpload \/ Hints \/ Unreachable \/ Respond \/ Mutate \/ AfterFails("broken")
    \/ Copied \/ Broken \/ WriteFails \/ TunnelEnds

Next == Handle \/ Timers \/ Upstream \/ ClientLeaves \/ BeginShutdown \/ ShutdownCancels

Spec == Init /\ [][Next]_pipelineVars

\* Nothing is assumed of the API, of the client or of how long a wait is.
FairSpec ==
    /\ Spec
    /\ WF_pipelineVars(Handle)
    /\ WF_pipelineVars(ShutdownCancels)

-------------------------------------------------------------------------------
(* Properties.                                                             *)

Injected == {faults[i] : i \in DOMAIN faults}

\* The place of a fault in the documented order (README.md, "faults run in this order").
Place(f) ==
    CASE f = "latency" -> 1 [] f = "reset" -> 2 [] f = "status" -> 3 [] f = "redirect" -> 4
      [] f = "hang" -> 5 [] f = "mutate" -> 6 [] f = "headers" -> 7 [] f = "truncate" -> 8
      [] f = "stall" -> 9 [] f = "bandwidth" -> 10

InOrder(s) == \A i, j \in DOMAIN s : i < j => Place(s[i]) < Place(s[j])

\* Values have their types, and faults were injected in the documented order,
\* each at most once.
TypeOK ==
    /\ pc \in {"arrive", "before", "wait", "failed", "hang", "forward", "upstream", "after",
               "copy", "pause", "tunnel", "finish", "done"}
    /\ client \in {"waiting", "gone"} /\ upload \in {"unread", "read", "aborted"}
    /\ upload = "aborted" => client = "gone"
    /\ stopping \in BOOLEAN /\ cancelled \in BOOLEAN /\ (cancelled => stopping)
    /\ pipelineError \in {None, "invalid header", "before hook", "no hijack", "shutting down",
                          "after hook"}
    /\ proxyError \in {None, "unreachable", "canceled", "upload", "broken", "not writable",
                      "not flushed"}
    /\ body \subseteq BodyFaults
    /\ status \in {0} \cup 100 .. 599
    /\ wire \in {0, 101} \cup 200 .. 599
    /\ ended \in {None, "returned", "panicked", "hijacked"}
    /\ (ended = None) = (pc \notin {"finish", "done"})
    /\ called \in BOOLEAN /\ answer \in {None} \cup UpstreamCodes
    /\ outcome \in {None, "whole", "broken", "cut"}
    /\ chain \subseteq FaultNames /\ todo \in Seq(FaultNames)
    /\ faults \in Seq(FaultNames) /\ InOrder(faults)

\* A request leaves exactly one event, when it is done, however its handler
\* ended, and its status is the one a client that stayed was sent.  After an
\* interim response, or on a tunnel, it is not: the README has these findings.
OneEventPerRequest ==
    /\ pc # "done" => events = <<>>
    /\ pc = "done" => /\ Len(events) = 1
                      /\ events[1].faults = faults
                      /\ (client = "waiting" /\ answer # 101 /\ ~Informational(status))
                             => events[1].status = wire

\* An event has an error because the proxy, the API or the request's header failed,
\* and never because a fault was injected, the program was stopping or a client
\* left that had sent its request: only an upload it aborts can be one (the README
\* describes it).  And whatever failed is in the event, except that an
\* API that breaks a response under way is not.  Left out are protocol switches,
\* which fail for a fault that wraps their body (stall.go:48) and for a client that
\* left (handler.go:211).
ErrorsAreProxyFailures ==
    (pc = "done" /\ answer # 101)
        => /\ events[1].error # None => failures # {} \/ upload = "aborted"
           /\ failures # {} => events[1].error # None \/ outcome = "broken"

\* The API is called for no request that a fault has answered, hung or reset,
\* or that was turned away during shutdown.
ShortCircuitsStayLocal ==
    called => /\ Injected \cap {"reset", "status", "redirect", "hang"} = {}
              /\ pipelineError # "shutting down"

\* Shutdown waits for requests that were forwarded: a client that stays gets
\* the API's response, whole unless the API broke it or a fault cut it.
ForwardedRequestsDrain ==
    (pc = "done" /\ called /\ client = "waiting")
        => /\ proxyError # "canceled"
           /\ outcome = "cut" => Injected \cap {"truncate", "stall", "bandwidth"} # {}

\* No wait of a fault outlasts the shutdown, or the client once the server can
\* notice that it left, which it cannot before the request's body was read.
InjectedWaitsEnd ==
    (pc \in {"wait", "hang", "pause"} /\ (stopping \/ RequestContextDone))
        ~> pc \notin {"wait", "hang", "pause"}

\* A request whose client left, and whose server can notice it, ends, unless it
\* became a tunnel.
AbandonedRequestsEnd == RequestContextDone ~> pc \in {"tunnel", "done"}

\* A request with no fault gets the status the API answered with.
ResponsesPassThrough ==
    (pc = "done" /\ client = "waiting" /\ chain = {} /\ answer # None) => wire = answer

===============================================================================
