--------------------------- MODULE Lifecycle_proofs ---------------------------
(***************************************************************************)
(* Proofs about Lifecycle, for any requests, limits and options.           *)
(*                                                                         *)
(* The argument: main leaves its select for a reason that stays            *)
(* (SelectHadReason), and passes the Shutdown of the data plane with every *)
(* request it tracks done, or with the deadline's error (StagesOfShutdown, *)
(* DataPlaneIsDrained).  A request that is done was recorded, and the      *)
(* callbacks it owed were called (RequestsAreRecorded, RecorderIsRight),   *)
(* so that what main reads of the recorder afterwards no longer changes,   *)
(* unless the deadline has passed, but for requests whose connection was   *)
(* hijacked (ReportIsOfRecorder, ExitCodeIsOfErrors).                      *)
(***************************************************************************)
EXTENDS Lifecycle, FiniteSetTheorems, TLAPS

\* The parts of TypeOK.
TypesOfMain ==
    /\ maxRequests \in Limits
    /\ signalled \in BOOLEAN /\ cause \in {None, "max-requests", "error"}
    /\ stage \in {"select", "shutdown", "drain", "collect", "reason", "report",
                  "write", "count", "exited"}
    /\ turn \in Servers
    /\ expired \in Servers \cup {None}
    /\ errorsSeen \subseteq {"data plane", "control plane", "config watcher",
                             "shutdown data plane", "shutdown control plane"}
    /\ exitCode \in {0, 1}

TypesOfServers ==
    /\ server \in [Servers -> {"starting", "up", "closed", "failed"}]
    /\ stopping \subseteq inShutdown /\ inShutdown \subseteq Servers
    /\ serverResults \in Seq(Servers) /\ Len(serverResults) <= 2
    /\ watcher \in {"running", "nil", "failed", "read"}

TypesOfRequests ==
    /\ request \in [Requests -> {"none", "forwarded", "waiting", "hijacked", "publishing",
                                 "notifying", "done"}]
    /\ hijacked \subseteq Requests /\ failing \subseteq Requests
    /\ due \in [Requests -> SUBSET {"max-requests", "error"}]
    /\ stream \in {"none", "open", "stuck"}
    /\ cut \subseteq Requests \cup {"stream"} /\ cut \cap hijacked = {}
    /\ recorded \subseteq Requests /\ limitReported \in BOOLEAN /\ errorReported \in BOOLEAN

TypesOfReport ==
    stage \in {"report", "write", "count", "exited"} \/ report # None =>
        report.requests \subseteq recorded /\ report.errors \subseteq Failures

DataPlaneTimedOut == "shutdown data plane" \in errorsSeen

AfterShutdown == {"collect", "reason", "report", "write", "count", "exited"}

\* Where main is in the loop over the servers.
StagesOfShutdown ==
    /\ stage = "select" => /\ inShutdown = {} /\ turn = "data plane"
                           /\ errorsSeen = {} /\ expired = None
    /\ stage = "drain" => turn \in inShutdown
    /\ turn = "control plane" => "data plane" \in inShutdown
    /\ stage \in AfterShutdown => turn = "control plane"
    /\ expired # None => expired \in inShutdown
    /\ expired = "control plane" => turn = "control plane"
    /\ DataPlaneTimedOut => expired # None

\* The channel of results: each server that returned is in it at most once.
ResultsAreOnce ==
    /\ \A i \in DOMAIN serverResults : server[serverResults[i]] \in {"closed", "failed"}
    /\ \A i, j \in DOMAIN serverResults : i # j => serverResults[i] # serverResults[j]
    /\ \A s \in Servers : server[s] = "closed" => s \in inShutdown

\* Main left its select for a reason.
SelectHadReason == stage # "select" => signalled \/ cause # None \/ errorsSeen # {}

\* What is known of a request from where its handler is.
RequestsAreRecorded ==
    \A r \in Requests :
        /\ request[r] \in {"none", "forwarded", "waiting"} => r \notin hijacked
        /\ request[r] = "none" => r \notin failing /\ r \notin cut
        /\ r \in recorded <=> request[r] \in {"notifying", "done"}
        /\ request[r] = "notifying" <=> due[r] # {}
        /\ "error" \in due[r] => ExitOnError /\ r \in failing
        /\ "max-requests" \in due[r] => limitReported

\* The recorder, and the cause its callbacks set.
RecorderIsRight ==
    /\ IsFiniteSet(recorded)
    /\ limitReported => maxRequests > 0 /\ Cardinality(recorded) >= maxRequests
    /\ cause = "max-requests" => limitReported
    /\ cause = "error" => ExitOnError /\ Failures # {}
    /\ Failures # {} => errorReported
    /\ errorReported /\ ExitOnError =>
          cause # None \/ \E r \in Requests : "error" \in due[r]

\* Every request the data plane tracked is done when its Shutdown returns in time.
DataPlaneIsDrained ==
    turn = "control plane" /\ ~DataPlaneTimedOut =>
        \A r \in Requests \ hijacked : request[r] \in {"none", "done"}

\* What is left when the deadline passes waits for a peer.
OnlySlowIsLeft ==
    /\ expired = "data plane" => \A r \in Requests \ hijacked : request[r] # "waiting"
    /\ expired = "control plane" => stream # "open"

Reports == [stoppedBy : {"max-requests", "error", "server-error", "signal"},
            requests : SUBSET Requests, errors : SUBSET Requests, written : BOOLEAN]

\* The errors that the shutdown does not wait for.
HijackedFailures == Failures \cap hijacked

\* The report and what main has read of the recorder for it.
ReportIsOfRecorder ==
    /\ stage \notin {"report", "write", "count", "exited"} => report = None
    /\ stage \in {"report", "write", "count", "exited"} =>
          /\ report \in Reports
          /\ report.stoppedBy = "max-requests" => limitReported
          /\ report.stoppedBy = "error" => ExitOnError /\ Failures # {}
          /\ report.stoppedBy = "server-error" => errorsSeen # {}
          /\ report.stoppedBy = "signal" => signalled
    /\ stage = "report" =>
          (ExitOnError /\ Failures # {} /\ HijackedFailures = {} /\ expired = None =>
              report.stoppedBy \in {"error", "max-requests"})
    /\ stage \in {"write", "count", "exited"} =>
          /\ /\ ExitOnError /\ expired = None
             /\ report.errors # {} /\ report.errors \cap hijacked = {}
             => report.stoppedBy \in {"error", "max-requests"}
          /\ report.stoppedBy = "max-requests" =>
                maxRequests > 0 /\ Cardinality(report.requests) >= maxRequests
          /\ report.stoppedBy = "error" => report.errors # {}
          /\ ~DataPlaneTimedOut =>
                /\ Failures \ hijacked \subseteq report.errors
                /\ {r \in Requests \ hijacked : request[r] # "none"} \subseteq report.requests

\* The exit code is 1 for what went wrong in run, or for the report.
ExitCodeIsOfErrors ==
    /\ stage \in {"select", "shutdown", "drain", "collect"} => exitCode = 0
    /\ stage \in {"reason", "report", "write"} /\ exitCode = 1 => errorsSeen # {}
    /\ stage = "count" /\ exitCode = 1 /\ report.written => errorsSeen # {}

IInv ==
    /\ TypesOfMain
    /\ TypesOfServers
    /\ TypesOfRequests
    /\ TypesOfReport
    /\ StagesOfShutdown
    /\ ResultsAreOnce
    /\ SelectHadReason
    /\ RequestsAreRecorded
    /\ RecorderIsRight
    /\ DataPlaneIsDrained
    /\ OnlySlowIsLeft
    /\ ReportIsOfRecorder
    /\ ExitCodeIsOfErrors
    /\ ReportExplainsExitCode

-------------------------------------------------------------------------------
(* The initial state, and the goroutines of the servers and of the watcher. *)

\* The names of servers, of their errors and of the watcher differ.
LEMMA NamesDiffer ==
    /\ Servers = {"data plane", "control plane"} /\ Cardinality(Servers) = 2
    /\ ShutdownError("data plane") = "shutdown data plane"
    /\ ShutdownError("control plane") = "shutdown control plane"
    /\ None \notin Servers /\ None \notin {"max-requests", "error"}
    /\ "stream" \notin Requests
  <1>1. Cardinality({"data plane", "control plane"}) = 2
    <2> DEFINE c == "control plane"
               S == {"data plane"}
    <2>1. IsFiniteSet(S) /\ Cardinality(S) = 1 /\ c \notin S
      BY FS_Singleton
    <2> HIDE DEF S, c
    <2>2. Cardinality(S \cup {c}) = Cardinality(S) + 1
      BY <2>1, FS_AddElement
    <2>3. Cardinality(S \cup {c}) = 2
      BY <2>1, <2>2
    <2> USE DEF S, c
    <2>4. S \cup {c} = {"data plane", "control plane"}
      OBVIOUS
    <2>5. QED
      BY <2>3, <2>4
  <1>2. QED
    BY <1>1, NamesAssumption DEF Servers, ShutdownError

\* The parts are the whole.
LEMMA PartsOfTypeOK ==
    TypesOfMain /\ TypesOfServers /\ TypesOfRequests /\ TypesOfReport => TypeOK
  <1>1. Servers \cup {"config watcher"} \cup {ShutdownError(s) : s \in Servers}
           = {"data plane", "control plane", "config watcher",
              "shutdown data plane", "shutdown control plane"}
    BY DEF Servers, ShutdownError
  <1>2. QED
    BY <1>1, NamesDiffer DEF TypesOfMain, TypesOfServers, TypesOfRequests, TypesOfReport, TypeOK

\* No result is sent yet.
LEMMA NoResults ==
    /\ <<>> \in Seq(Servers) /\ Len(<<>>) = 0 /\ Len(<<>>) <= 2 /\ DOMAIN <<>> = {}
  OBVIOUS

\* The initial state.
LEMMA InitIInv == Init => IInv
  <1> SUFFICES ASSUME Init PROVE IInv
    OBVIOUS
  <1> USE DEF Init
  <1>1. TypesOfMain /\ TypesOfReport
    BY NamesDiffer DEF TypesOfMain, TypesOfReport
  <1>7. TypesOfServers
    BY NoResults DEF TypesOfServers
  <1>8. TypesOfRequests
    BY DEF TypesOfRequests
  <1>2. StagesOfShutdown /\ SelectHadReason
    BY NamesDiffer DEF StagesOfShutdown, SelectHadReason, DataPlaneTimedOut, AfterShutdown
  <1>9. ResultsAreOnce
    BY NoResults DEF ResultsAreOnce
  <1>3. RequestsAreRecorded
    BY DEF RequestsAreRecorded
  <1>4. RecorderIsRight
    BY NamesDiffer, FS_EmptySet DEF RecorderIsRight, Failures
  <1>5. DataPlaneIsDrained /\ OnlySlowIsLeft
    BY NamesDiffer DEF DataPlaneIsDrained, OnlySlowIsLeft
  <1>6. ReportIsOfRecorder /\ ExitCodeIsOfErrors /\ ReportExplainsExitCode
    BY DEF ReportIsOfRecorder, ExitCodeIsOfErrors, ReportExplainsExitCode
  <1>10. QED
    BY <1>1, <1>2, <1>3, <1>4, <1>5, <1>6, <1>7, <1>8, <1>9 DEF IInv

\* Each part of the invariant stays as long as the variables it is about do.
LEMMA TypesFrame ==
    /\ TypesOfMain /\ UNCHANGED <<maxRequests, signalled, cause, stage, turn, expired,
                                  errorsSeen, exitCode>>
          => TypesOfMain'
    /\ TypesOfServers /\ UNCHANGED <<server, stopping, inShutdown, serverResults, watcher>>
          => TypesOfServers'
    /\ TypesOfRequests /\ UNCHANGED <<request, hijacked, failing, due, stream, cut, recorded,
                                      limitReported, errorReported>>
          => TypesOfRequests'
    /\ TypesOfReport /\ UNCHANGED <<stage, recorded, failing, report>> => TypesOfReport'
  <1>1. TypesOfMain /\ UNCHANGED <<maxRequests, signalled, cause, stage, turn, expired,
                                   errorsSeen, exitCode>>
           => TypesOfMain'
    BY DEF TypesOfMain
  <1>2. TypesOfServers /\ UNCHANGED <<server, stopping, inShutdown, serverResults, watcher>>
           => TypesOfServers'
    BY DEF TypesOfServers
  <1>3. TypesOfRequests /\ UNCHANGED <<request, hijacked, failing, due, stream, cut, recorded,
                                       limitReported, errorReported>>
           => TypesOfRequests'
    BY DEF TypesOfRequests
  <1>4. TypesOfReport /\ UNCHANGED <<stage, recorded, failing, report>> => TypesOfReport'
    BY DEF TypesOfReport, Failures
  <1>5. QED
    BY <1>1, <1>2, <1>3, <1>4

\* Where main is, as long as main and the servers' Shutdown do nothing.
LEMMA StagesFrame ==
    ASSUME StagesOfShutdown, UNCHANGED <<stage, turn, inShutdown, errorsSeen, expired>>
    PROVE  StagesOfShutdown'
  BY DEF StagesOfShutdown, DataPlaneTimedOut

\* The results, as long as no server returns and none is read.
LEMMA ResultsFrame ==
    ASSUME ResultsAreOnce, UNCHANGED <<server, serverResults>>, inShutdown \subseteq inShutdown'
    PROVE  ResultsAreOnce'
  BY DEF ResultsAreOnce

\* The requests, as long as no handler does anything and none is cut.
LEMMA RequestsFrame ==
    ASSUME RequestsAreRecorded,
           UNCHANGED <<request, hijacked, failing, due, recorded, limitReported, cut>>
    PROVE  RequestsAreRecorded'
  BY DEF RequestsAreRecorded

\* The recorder, as long as no request is recorded and no callback is called.
LEMMA RecorderFrame ==
    ASSUME RecorderIsRight,
           UNCHANGED <<maxRequests, recorded, failing, limitReported, errorReported, cause, due>>
    PROVE  RecorderIsRight'
  BY DEF RecorderIsRight, Failures

\* What the shutdown has waited for, as long as no handler does anything.
LEMMA DrainedFrame ==
    ASSUME DataPlaneIsDrained, UNCHANGED <<turn, errorsSeen, request, hijacked>>
    PROVE  DataPlaneIsDrained'
  BY DEF DataPlaneIsDrained, DataPlaneTimedOut

\* What is left at the deadline, as long as no handler and no stream does anything.
LEMMA SlowFrame ==
    ASSUME OnlySlowIsLeft, UNCHANGED <<expired, request, hijacked, stream>>
    PROVE  OnlySlowIsLeft'
  BY DEF OnlySlowIsLeft

\* The requests that are to be in the report, unless the deadline passes.
Accepted == {r \in Requests \ hijacked : request[r] # "none"}

\* The report, as long as main does nothing, no other request arrives and none fails
\* but hijacked ones.
LEMMA ReportFrame ==
    ASSUME ReportIsOfRecorder,
           UNCHANGED <<stage, report, errorsSeen, expired, maxRequests, signalled, hijacked>>,
           limitReported => limitReported',
           Failures \subseteq Failures', Failures' \ hijacked \subseteq Failures,
           Accepted' = Accepted
    PROVE  ReportIsOfRecorder'
  <1>1. DataPlaneTimedOut' = DataPlaneTimedOut
    BY DEF DataPlaneTimedOut
  <1>2. Failures' # {} /\ HijackedFailures' = {} => Failures # {} /\ HijackedFailures = {}
    BY DEF HijackedFailures
  <1>3. Failures # {} => Failures' # {}
    OBVIOUS
  <1>4. stage \in {"report", "write", "count", "exited"} =>
           /\ report' \in Reports
           /\ report'.stoppedBy = "max-requests" => limitReported'
           /\ report'.stoppedBy = "error" => ExitOnError /\ Failures' # {}
           /\ report'.stoppedBy = "server-error" => errorsSeen' # {}
           /\ report'.stoppedBy = "signal" => signalled'
    BY <1>3 DEF ReportIsOfRecorder
  <1>5. stage = "report" =>
           (ExitOnError /\ Failures' # {} /\ HijackedFailures' = {} /\ expired' = None =>
               report'.stoppedBy \in {"error", "max-requests"})
    BY <1>2 DEF ReportIsOfRecorder
  <1>6. stage \in {"write", "count", "exited"} =>
           /\ /\ ExitOnError /\ expired' = None
              /\ report'.errors # {} /\ report'.errors \cap hijacked' = {}
              => report'.stoppedBy \in {"error", "max-requests"}
           /\ report'.stoppedBy = "max-requests" =>
                 maxRequests' > 0 /\ Cardinality(report'.requests) >= maxRequests'
           /\ report'.stoppedBy = "error" => report'.errors # {}
    BY DEF ReportIsOfRecorder
  <1>7. stage \in {"write", "count", "exited"} /\ ~DataPlaneTimedOut =>
           Failures' \ hijacked' \subseteq report'.errors /\ Accepted' \subseteq report'.requests
    BY DEF ReportIsOfRecorder, Accepted
  <1>8. QED
    BY <1>1, <1>4, <1>5, <1>6, <1>7 DEF ReportIsOfRecorder, Accepted

\* The exit code, as long as main does nothing.
LEMMA ExitCodeFrame ==
    ASSUME ExitCodeIsOfErrors, ReportExplainsExitCode,
           UNCHANGED <<stage, report, errorsSeen, exitCode>>,
           Failures \subseteq Failures', hijacked \subseteq hijacked'
    PROVE  ExitCodeIsOfErrors' /\ ReportExplainsExitCode'
  <1>1. Failures \cap hijacked # {} => Failures' \cap hijacked' # {}
    OBVIOUS
  <1>2. QED
    BY <1>1 DEF ExitCodeIsOfErrors, ReportExplainsExitCode

\* One more result, of a server that was not in the channel, keeps it within two.
LEMMA OneMoreResult ==
    ASSUME NEW q \in Seq(Servers), NEW s \in Servers,
           \A i, j \in DOMAIN q : i # j => q[i] # q[j],
           \A i \in DOMAIN q : q[i] # s
    PROVE  /\ Append(q, s) \in Seq(Servers) /\ Len(Append(q, s)) <= 2
           /\ \A i \in DOMAIN Append(q, s) : Append(q, s)[i] = s \/ \E j \in DOMAIN q : Append(q, s)[i] = q[j]
           /\ \A i, j \in DOMAIN Append(q, s) : i # j => Append(q, s)[i] # Append(q, s)[j]
  <1>1. /\ Append(q, s) \in Seq(Servers) /\ Len(Append(q, s)) = Len(q) + 1 /\ Len(q) \in Nat
        /\ DOMAIN Append(q, s) = DOMAIN q \cup {Len(q) + 1} /\ Len(q) + 1 \notin DOMAIN q
        /\ Append(q, s)[Len(q) + 1] = s
        /\ \A i \in DOMAIN q : Append(q, s)[i] = q[i]
        /\ DOMAIN q = 1 .. Len(q) /\ \A i \in DOMAIN q : q[i] \in Servers
    OBVIOUS
  <1>2. Len(q) < 2
    <2> SUFFICES ASSUME Len(q) >= 2 PROVE FALSE
      BY <1>1
    <2>1. 1 \in DOMAIN q /\ 2 \in DOMAIN q
      BY <1>1
    <2>2. q[1] # q[2] /\ q[1] # s /\ q[2] # s /\ q[1] \in Servers /\ q[2] \in Servers
      BY <1>1, <2>1
    <2>3. QED
      BY <2>2 DEF Servers
  <1>3. QED
    BY <1>1, <1>2

\* A server listens, or returns and sends its result.
LEMMA ServeKeepsIInv ==
    ASSUME IInv, NEW s \in Servers, serve(s)
    PROVE  IInv'
  <1>1. /\ UNCHANGED <<maxRequests, signalled, cause, stage, turn, expired, errorsSeen, report,
                       exitCode, watcher, request, hijacked, failing, due, stream, cut,
                       recorded, limitReported, errorReported, inShutdown, stopping>>
        /\ server \in [Servers -> {"starting", "up", "closed", "failed"}]
        /\ serverResults \in Seq(Servers) /\ Cardinality(Servers) = 2
        /\ server[s] \notin {"closed", "failed"}
    BY NamesDiffer DEF serve, mainVars, handlerVars, recorder, Listen, ServeReturns, IInv, TypesOfServers
  <1>2. \A i \in DOMAIN serverResults : serverResults[i] # s
    BY <1>1 DEF IInv, ResultsAreOnce
  <1>3. /\ server' \in [Servers -> {"starting", "up", "closed", "failed"}]
        /\ serverResults' \in Seq(Servers) /\ Len(serverResults') <= 2
        /\ ResultsAreOnce'
    <2>1. CASE Listen(s)
      <3>1. server' = [server EXCEPT ![s] = "up"] /\ serverResults' = serverResults
        BY <2>1 DEF Listen
      <3>2. \A t \in Servers \ {s} : server'[t] = server[t]
        BY <1>1, <3>1
      <3>3. \A i \in DOMAIN serverResults : serverResults[i] \in Servers \ {s}
        BY <1>1, <1>2
      <3>4. QED
        BY <1>1, <3>1, <3>2, <3>3 DEF IInv, ResultsAreOnce, TypesOfServers
    <2>2. CASE ServeReturns(s)
      <3>1. /\ server'[s] \in {"closed", "failed"} /\ (server'[s] = "closed" => s \in inShutdown)
            /\ server' = [server EXCEPT ![s] = server'[s]]
            /\ serverResults' = Append(serverResults, s)
        BY <1>1, <2>2 DEF ServeReturns
      <3>2. \A t \in Servers \ {s} : server'[t] = server[t]
        BY <1>1, <3>1
      <3>3. /\ serverResults' \in Seq(Servers) /\ Len(serverResults') <= 2
            /\ \A i \in DOMAIN serverResults' :
                  serverResults'[i] = s \/ \E j \in DOMAIN serverResults : serverResults'[i] = serverResults[j]
            /\ \A i, j \in DOMAIN serverResults' : i # j => serverResults'[i] # serverResults'[j]
        BY <1>1, <1>2, <3>1, OneMoreResult DEF IInv, ResultsAreOnce
      <3>4. \A i \in DOMAIN serverResults' : server'[serverResults'[i]] \in {"closed", "failed"}
        BY <1>1, <3>1, <3>2, <3>3 DEF IInv, ResultsAreOnce
      <3>5. QED
        BY <1>1, <3>1, <3>2, <3>3, <3>4 DEF IInv, ResultsAreOnce
    <2>3. QED
      BY <2>1, <2>2 DEF serve
  <1>4. TypesOfMain' /\ TypesOfServers' /\ TypesOfRequests' /\ TypesOfReport'
    <2>1. TypesOfServers'
      BY <1>1, <1>3 DEF IInv, TypesOfServers
    <2>2. QED
      BY <1>1, <2>1, TypesFrame DEF IInv
  <1>5. StagesOfShutdown' /\ RequestsAreRecorded' /\ RecorderIsRight'
    BY <1>1, StagesFrame, RequestsFrame, RecorderFrame DEF IInv
  <1>6. SelectHadReason' /\ DataPlaneIsDrained' /\ OnlySlowIsLeft'
    BY <1>1, DrainedFrame, SlowFrame DEF IInv, SelectHadReason
  <1>7. ReportIsOfRecorder' /\ ExitCodeIsOfErrors' /\ ReportExplainsExitCode'
    BY <1>1, ReportFrame, ExitCodeFrame DEF IInv, Failures, Accepted
  <1>8. QED
    BY <1>3, <1>4, <1>5, <1>6, <1>7 DEF IInv

\* Steps that change nothing the invariant relates but flags of goroutines.
LEMMA QuietKeepsIInv ==
    ASSUME IInv,
           \/ \E s \in Servers : BeginShutdown(s)
           \/ WatcherReturns
           \/ UNCHANGED vars
    PROVE  IInv'
  <1>1. /\ UNCHANGED <<maxRequests, signalled, cause, stage, turn, expired, errorsSeen, report,
                       exitCode, request, hijacked, failing, due, stream, cut, recorded,
                       limitReported, errorReported, inShutdown, server, serverResults>>
        /\ stopping' \subseteq inShutdown /\ watcher' \in {"running", "nil", "failed", "read"}
    BY DEF BeginShutdown, WatcherReturns, vars, mainVars, serverVars, handlerVars, recorder,
           IInv, TypesOfServers
  <1>2. TypesOfMain' /\ TypesOfServers' /\ TypesOfRequests' /\ TypesOfReport'
    <2>1. TypesOfServers'
      BY <1>1 DEF IInv, TypesOfServers
    <2>2. QED
      BY <1>1, <2>1, TypesFrame DEF IInv
  <1>3. StagesOfShutdown' /\ RequestsAreRecorded' /\ RecorderIsRight' /\ ResultsAreOnce'
    BY <1>1, StagesFrame, RequestsFrame, RecorderFrame, ResultsFrame DEF IInv
  <1>4. SelectHadReason' /\ DataPlaneIsDrained' /\ OnlySlowIsLeft'
    BY <1>1, DrainedFrame, SlowFrame DEF IInv, SelectHadReason
  <1>5. ReportIsOfRecorder' /\ ExitCodeIsOfErrors' /\ ReportExplainsExitCode'
    BY <1>1, ReportFrame, ExitCodeFrame DEF IInv, Failures, Accepted
  <1>6. QED
    BY <1>2, <1>3, <1>4, <1>5 DEF IInv

\* A signal arrives while main is in its select.
LEMMA SignalKeepsIInv ==
    ASSUME IInv, Signal
    PROVE  IInv'
  <1>1. /\ UNCHANGED <<maxRequests, cause, stage, turn, expired, errorsSeen, report,
                       exitCode, watcher, request, hijacked, failing, due, stream, cut,
                       recorded, limitReported, errorReported, server, inShutdown, stopping,
                       serverResults>>
        /\ signalled' = TRUE /\ stage = "select"
    BY DEF Signal, mainVars, serverVars, handlerVars, recorder
  <1>2. TypesOfMain' /\ TypesOfServers' /\ TypesOfRequests' /\ TypesOfReport'
    <2>1. TypesOfMain'
      BY <1>1 DEF IInv, TypesOfMain
    <2>2. QED
      BY <1>1, <2>1, TypesFrame DEF IInv
  <1>3. StagesOfShutdown' /\ RequestsAreRecorded' /\ RecorderIsRight' /\ ResultsAreOnce'
    BY <1>1, StagesFrame, RequestsFrame, RecorderFrame, ResultsFrame DEF IInv
  <1>4. SelectHadReason' /\ DataPlaneIsDrained' /\ OnlySlowIsLeft'
    BY <1>1, DrainedFrame, SlowFrame DEF IInv, SelectHadReason
  <1>5. ReportIsOfRecorder'
    BY <1>1 DEF IInv, ReportIsOfRecorder
  <1>6. ExitCodeIsOfErrors' /\ ReportExplainsExitCode'
    BY <1>1, ExitCodeFrame DEF IInv, Failures
  <1>7. QED
    BY <1>2, <1>3, <1>4, <1>5, <1>6 DEF IInv

\* A dashboard's stream opens, hangs or ends.
LEMMA StreamKeepsIInv ==
    ASSUME IInv, streamEvents
    PROVE  IInv'
  <1>1. /\ UNCHANGED <<maxRequests, signalled, cause, stage, turn, expired, errorsSeen, report,
                       exitCode, watcher, request, hijacked, failing, due, cut,
                       recorded, limitReported, errorReported, server, inShutdown, stopping,
                       serverResults>>
        /\ stream' \in {"none", "open", "stuck"}
        /\ stream' = "open" => "control plane" \notin inShutdown
    BY DEF streamEvents, OpenStream, StopReading, Disconnect, StreamEnds,
           mainVars, serverVars, handlerVars, recorder
  <1>2. TypesOfMain' /\ TypesOfServers' /\ TypesOfRequests' /\ TypesOfReport'
    <2>1. TypesOfRequests'
      BY <1>1 DEF IInv, TypesOfRequests
    <2>2. QED
      BY <1>1, <2>1, TypesFrame DEF IInv
  <1>3. StagesOfShutdown' /\ RequestsAreRecorded' /\ RecorderIsRight' /\ ResultsAreOnce'
    BY <1>1, StagesFrame, RequestsFrame, RecorderFrame, ResultsFrame DEF IInv
  <1>4. SelectHadReason' /\ DataPlaneIsDrained'
    BY <1>1, DrainedFrame DEF IInv, SelectHadReason
  <1>5. OnlySlowIsLeft'
    BY <1>1, NamesDiffer DEF IInv, OnlySlowIsLeft, StagesOfShutdown
  <1>6. ReportIsOfRecorder' /\ ExitCodeIsOfErrors' /\ ReportExplainsExitCode'
    BY <1>1, ReportFrame, ExitCodeFrame DEF IInv, Failures, Accepted
  <1>7. QED
    BY <1>2, <1>3, <1>4, <1>5, <1>6 DEF IInv

-------------------------------------------------------------------------------
(* Handlers of the data plane.                                             *)

\* What no handler changes.
LEMMA HandlersLeaveMain ==
    ASSUME NEW r \in Requests, ServeHTTP(r)
    PROVE  UNCHANGED <<maxRequests, signalled, stage, turn, expired, errorsSeen, report,
                       exitCode, watcher, stream, cut, server, inShutdown, stopping,
                       serverResults>>
  BY DEF ServeHTTP, mainVars, serverVars

\* A request arrives: the data plane is not shut down yet.
LEMMA ArriveKeepsIInv ==
    ASSUME IInv, NEW r \in Requests, ServeHTTP(r), Arrive(r)
    PROVE  IInv'
  <1>1. /\ UNCHANGED <<maxRequests, signalled, cause, stage, turn, expired, errorsSeen, report,
                       exitCode, watcher, failing, due, stream, cut,
                       recorded, limitReported, errorReported, server, inShutdown, stopping,
                       serverResults>>
        /\ request[r] = "none" /\ "data plane" \notin inShutdown
        /\ request' = [request EXCEPT ![r] = request'[r]]
        /\ request'[r] \in {"forwarded", "waiting", "hijacked"}
        /\ hijacked' = IF request'[r] = "hijacked" THEN hijacked \cup {r} ELSE hijacked
    <2>1. PICK at \in {"forwarded", "waiting", "hijacked"} :
             /\ request' = [request EXCEPT ![r] = at]
             /\ hijacked' = IF at = "hijacked" THEN hijacked \cup {r} ELSE hijacked
      BY DEF Arrive
    <2>2. request'[r] = at
      BY <2>1 DEF IInv, TypesOfRequests
    <2>3. QED
      BY <2>1, <2>2, HandlersLeaveMain DEF Arrive, recorder
  <1>2. /\ request \in [Requests -> {"none", "forwarded", "waiting", "hijacked", "publishing",
                                     "notifying", "done"}]
        /\ r \notin failing /\ r \notin cut /\ r \notin hijacked /\ r \notin recorded
        /\ hijacked \subseteq Requests
    BY <1>1 DEF IInv, TypesOfRequests, RequestsAreRecorded
  <1>3. turn # "control plane" /\ expired = None /\ stage \notin AfterShutdown
    BY <1>1, NamesDiffer DEF IInv, StagesOfShutdown, TypesOfMain
  <1>4. TypesOfMain' /\ TypesOfServers' /\ TypesOfRequests' /\ TypesOfReport'
    <2>1. TypesOfRequests'
      <3>1. /\ request' \in [Requests -> {"none", "forwarded", "waiting", "hijacked",
                                          "publishing", "notifying", "done"}]
            /\ hijacked' \subseteq hijacked \cup {r}
        BY <1>1, <1>2
      <3>2. /\ hijacked' \subseteq Requests /\ failing \subseteq Requests
            /\ cut \cap hijacked' = {}
        BY <1>2, <3>1 DEF IInv, TypesOfRequests
      <3>3. /\ due \in [Requests -> SUBSET {"max-requests", "error"}]
            /\ stream \in {"none", "open", "stuck"} /\ cut \subseteq Requests \cup {"stream"}
            /\ recorded \subseteq Requests
            /\ limitReported \in BOOLEAN /\ errorReported \in BOOLEAN
        BY DEF IInv, TypesOfRequests
      <3>4. QED
        BY <1>1, <3>1, <3>2, <3>3 DEF TypesOfRequests
    <2>2. QED
      BY <1>1, <2>1, TypesFrame DEF IInv
  <1>5. StagesOfShutdown' /\ RecorderIsRight' /\ ResultsAreOnce'
    BY <1>1, StagesFrame, RecorderFrame, ResultsFrame DEF IInv
  <1>6. RequestsAreRecorded'
    BY <1>1, <1>2 DEF IInv, RequestsAreRecorded
  <1>7. SelectHadReason' /\ DataPlaneIsDrained' /\ OnlySlowIsLeft'
    BY <1>1, <1>3, NamesDiffer DEF IInv, SelectHadReason, DataPlaneIsDrained, OnlySlowIsLeft
  <1>8. ReportIsOfRecorder'
    BY <1>1, <1>3 DEF IInv, ReportIsOfRecorder, AfterShutdown
  <1>9. ExitCodeIsOfErrors' /\ ReportExplainsExitCode'
    <2>1. Failures \subseteq Failures' /\ hijacked \subseteq hijacked'
      BY <1>1 DEF Failures
    <2>2. QED
      BY <1>1, <2>1, ExitCodeFrame DEF IInv
  <1>10. QED
    BY <1>4, <1>5, <1>6, <1>7, <1>8, <1>9 DEF IInv

\* A handler's answer is over, or failed: the request is not recorded yet.
LEMMA HandlerEndsKeepsIInv ==
    ASSUME IInv, NEW r \in Requests, ServeHTTP(r), HandlerEnds(r)
    PROVE  IInv'
  <1>1. /\ UNCHANGED <<maxRequests, signalled, cause, stage, turn, expired, errorsSeen, report,
                       exitCode, watcher, hijacked, due, stream, cut,
                       recorded, limitReported, errorReported, server, inShutdown, stopping,
                       serverResults>>
        /\ request[r] \in {"forwarded", "hijacked", "waiting"}
        /\ request' = [request EXCEPT ![r] = "publishing"]
        /\ \/ failing' = failing
           \/ failing' = failing \cup {r}
    BY HandlersLeaveMain DEF HandlerEnds, recorder
  <1>2. /\ request \in [Requests -> {"none", "forwarded", "waiting", "hijacked", "publishing",
                                     "notifying", "done"}]
        /\ r \notin recorded /\ request[r] # "none"
        /\ request'[r] = "publishing" /\ \A t \in Requests \ {r} : request'[t] = request[t]
        /\ \A t \in Requests \ {r} : t \in failing' <=> t \in failing
    BY <1>1 DEF IInv, TypesOfRequests, RequestsAreRecorded
  <1>3. Failures' = Failures /\ Accepted' = Accepted
    BY <1>1, <1>2 DEF Failures, Accepted, IInv, TypesOfRequests
  <1>4. TypesOfMain' /\ TypesOfServers' /\ TypesOfRequests' /\ TypesOfReport'
    <2>1. TypesOfRequests'
      BY <1>1, <1>2 DEF IInv, TypesOfRequests
    <2>2. TypesOfReport'
      BY <1>1, <1>3 DEF IInv, TypesOfReport
    <2>3. QED
      BY <1>1, <2>1, <2>2, TypesFrame DEF IInv
  <1>5. StagesOfShutdown' /\ ResultsAreOnce'
    BY <1>1, StagesFrame, ResultsFrame DEF IInv
  <1>6. RequestsAreRecorded'
    BY <1>1, <1>2 DEF IInv, RequestsAreRecorded
  <1>7. RecorderIsRight'
    BY <1>1, <1>3 DEF IInv, RecorderIsRight
  <1>8. SelectHadReason' /\ DataPlaneIsDrained' /\ OnlySlowIsLeft'
    BY <1>1, <1>2 DEF IInv, SelectHadReason, DataPlaneIsDrained, OnlySlowIsLeft, DataPlaneTimedOut
  <1>9. ReportIsOfRecorder' /\ ExitCodeIsOfErrors' /\ ReportExplainsExitCode'
    BY <1>1, <1>3, ReportFrame, ExitCodeFrame DEF IInv
  <1>10. QED
    BY <1>4, <1>5, <1>6, <1>7, <1>8, <1>9 DEF IInv

\* A request is recorded, and owes the callbacks of what it was the first to reach.
LEMMA RecordKeepsIInv ==
    ASSUME IInv, NEW r \in Requests, ServeHTTP(r), record(r)
    PROVE  IInv'
  <1> DEFINE n == Cardinality(recorded \cup {r})
             limitReached == maxRequests > 0 /\ ~limitReported /\ n >= maxRequests
             firstError == r \in failing /\ ~errorReported
             callbacks == (IF limitReached THEN {"max-requests"} ELSE {})
                             \cup (IF firstError /\ ExitOnError THEN {"error"} ELSE {})
  <1>1. /\ UNCHANGED <<maxRequests, signalled, cause, stage, turn, expired, errorsSeen, report,
                       exitCode, watcher, hijacked, failing, stream, cut, server, inShutdown,
                       stopping, serverResults>>
        /\ request[r] = "publishing" /\ recorded' = recorded \cup {r}
        /\ limitReported' = (limitReported \/ limitReached)
        /\ errorReported' = (errorReported \/ r \in failing)
        /\ due' = [due EXCEPT ![r] = callbacks]
        /\ request' = [request EXCEPT ![r] = IF callbacks = {} THEN "done" ELSE "notifying"]
    BY HandlersLeaveMain DEF record
  <1>2. /\ request \in [Requests -> {"none", "forwarded", "waiting", "hijacked", "publishing",
                                     "notifying", "done"}]
        /\ due \in [Requests -> SUBSET {"max-requests", "error"}]
        /\ recorded \subseteq Requests /\ hijacked \subseteq Requests
        /\ failing \subseteq Requests
        /\ limitReported \in BOOLEAN /\ errorReported \in BOOLEAN
        /\ r \notin recorded /\ due[r] = {}
        /\ maxRequests \in Nat
    BY <1>1, OptionsAssumption DEF IInv, TypesOfRequests, TypesOfMain, RequestsAreRecorded
  <1>3. /\ IsFiniteSet(recorded') /\ Cardinality(recorded) \in Nat
        /\ Cardinality(recorded') = Cardinality(recorded) + 1
    BY <1>1, <1>2, FS_AddElement, FS_CardinalityType DEF IInv, RecorderIsRight
  <1>4. /\ callbacks \in SUBSET {"max-requests", "error"}
        /\ "max-requests" \in callbacks <=> limitReached
        /\ "error" \in callbacks <=> firstError /\ ExitOnError
    OBVIOUS
  <1> HIDE DEF callbacks
  <1>5. /\ due'[r] = callbacks /\ \A t \in Requests \ {r} : due'[t] = due[t]
        /\ request'[r] = IF callbacks = {} THEN "done" ELSE "notifying"
        /\ \A t \in Requests \ {r} : request'[t] = request[t]
        /\ \A t \in Requests : t # r => (t \in recorded' <=> t \in recorded)
        /\ r \in recorded'
    BY <1>1, <1>2
  <1>6. /\ Failures' = IF r \in failing THEN Failures \cup {r} ELSE Failures
        /\ Accepted' = Accepted /\ Failures \subseteq Failures'
    BY <1>1, <1>2, <1>5 DEF Failures, Accepted
  <1>7. r \in hijacked => Failures' \ hijacked \subseteq Failures
    BY <1>6
  <1>8. turn = "control plane" /\ ~DataPlaneTimedOut => r \in hijacked
    BY <1>1 DEF IInv, DataPlaneIsDrained
  <1>9. TypesOfMain' /\ TypesOfServers' /\ TypesOfRequests' /\ TypesOfReport'
    <2>1. /\ request' \in [Requests -> {"none", "forwarded", "waiting", "hijacked", "publishing",
                                        "notifying", "done"}]
          /\ due' \in [Requests -> SUBSET {"max-requests", "error"}]
          /\ recorded' \subseteq Requests
      BY <1>1, <1>2, <1>4
    <2>2. TypesOfRequests'
      BY <1>1, <1>2, <2>1 DEF IInv, TypesOfRequests
    <2>3. TypesOfReport'
      BY <1>1, <1>6 DEF IInv, TypesOfReport
    <2>4. QED
      BY <1>1, <2>2, <2>3, TypesFrame DEF IInv
  <1>10. StagesOfShutdown' /\ ResultsAreOnce'
    BY <1>1, StagesFrame, ResultsFrame DEF IInv
  <1>11. RequestsAreRecorded'
    <2> SUFFICES ASSUME NEW t \in Requests
                 PROVE /\ request'[t] \in {"none", "forwarded", "waiting"} => t \notin hijacked'
                       /\ request'[t] = "none" => t \notin failing' /\ t \notin cut'
                       /\ t \in recorded' <=> request'[t] \in {"notifying", "done"}
                       /\ request'[t] = "notifying" <=> due'[t] # {}
                       /\ "error" \in due'[t] => ExitOnError /\ t \in failing'
                       /\ "max-requests" \in due'[t] => limitReported'
      BY DEF RequestsAreRecorded
    <2>1. CASE t = r
      <3>1. /\ request'[r] \in {"notifying", "done"} /\ r \in recorded'
            /\ request'[r] = "notifying" <=> due'[r] # {}
        BY <1>5
      <3>2. /\ "error" \in due'[r] => ExitOnError /\ r \in failing'
            /\ "max-requests" \in due'[r] => limitReported'
        BY <1>1, <1>4, <1>5
      <3>3. QED
        BY <2>1, <3>1, <3>2
    <2>2. CASE t # r
      BY <1>1, <1>5, <2>2 DEF IInv, RequestsAreRecorded
    <2>3. QED
      BY <2>1, <2>2
  <1>12. RecorderIsRight'
    <2>1. limitReported' => maxRequests' > 0 /\ Cardinality(recorded') >= maxRequests'
      BY <1>1, <1>2, <1>3 DEF IInv, RecorderIsRight
    <2>2. /\ cause' = "max-requests" => limitReported'
          /\ cause' = "error" => ExitOnError /\ Failures' # {}
      BY <1>1, <1>6 DEF IInv, RecorderIsRight
    <2>3. Failures' # {} => errorReported'
      BY <1>1, <1>6 DEF IInv, RecorderIsRight
    <2>4. errorReported' /\ ExitOnError =>
             cause' # None \/ \E t \in Requests : "error" \in due'[t]
      <3>1. CASE errorReported
        <4>1. ExitOnError => cause # None \/ \E t \in Requests \ {r} : "error" \in due[t]
          BY <1>2, <3>1 DEF IInv, RecorderIsRight
        <4>2. QED
          BY <1>1, <1>5, <4>1
      <3>2. CASE ~errorReported
        BY <1>1, <1>4, <1>5, <3>2
      <3>3. QED
        BY <3>1, <3>2
    <2>5. QED
      BY <1>3, <2>1, <2>2, <2>3, <2>4 DEF RecorderIsRight
  <1>13. SelectHadReason' /\ DataPlaneIsDrained' /\ OnlySlowIsLeft'
    <2>1. SelectHadReason'
      BY <1>1 DEF IInv, SelectHadReason
    <2>2. DataPlaneIsDrained'
      BY <1>1, <1>5, <1>8 DEF IInv, DataPlaneIsDrained, DataPlaneTimedOut
    <2>3. OnlySlowIsLeft'
      <3>1. request'[r] # "waiting" /\ hijacked' = hijacked /\ stream' = stream /\ expired' = expired
        BY <1>1, <1>5
      <3>2. \A t \in Requests : request[t] # "waiting" => request'[t] # "waiting"
        BY <1>5, <3>1
      <3>3. QED
        BY <3>1, <3>2 DEF IInv, OnlySlowIsLeft
    <2>4. QED
      BY <2>1, <2>2, <2>3
  <1>14. ReportIsOfRecorder'
    <2>1. CASE stage \notin AfterShutdown
      BY <1>1, <2>1 DEF IInv, ReportIsOfRecorder, AfterShutdown
    <2>2. CASE stage \in AfterShutdown /\ r \in hijacked
      BY <1>1, <1>6, <1>7, <2>2, ReportFrame DEF IInv
    <2>3. CASE stage \in AfterShutdown /\ r \notin hijacked
      <3>1. DataPlaneTimedOut /\ DataPlaneTimedOut' /\ expired' # None
        BY <1>1, <1>8, <2>3 DEF IInv, StagesOfShutdown, DataPlaneTimedOut
      <3>2. QED
        BY <1>1, <1>6, <3>1 DEF IInv, ReportIsOfRecorder
    <2>4. QED
      BY <2>1, <2>2, <2>3
  <1>15. ExitCodeIsOfErrors' /\ ReportExplainsExitCode'
    BY <1>1, <1>6, ExitCodeFrame DEF IInv
  <1>16. QED
    BY <1>9, <1>10, <1>11, <1>12, <1>13, <1>14, <1>15 DEF IInv

\* A callback is called: the first one sets the cause.
LEMMA NotifyKeepsIInv ==
    ASSUME IInv, NEW r \in Requests, ServeHTTP(r), Notify(r)
    PROVE  IInv'
  <1> DEFINE reason == IF "max-requests" \in due[r] THEN "max-requests" ELSE "error"
  <1>1. /\ UNCHANGED <<maxRequests, signalled, stage, turn, expired, errorsSeen, report,
                       exitCode, watcher, hijacked, failing, stream, cut, server, inShutdown,
                       stopping, serverResults, recorded, limitReported, errorReported>>
        /\ request[r] = "notifying"
        /\ cause' = IF cause = None THEN reason ELSE cause
        /\ due' = [due EXCEPT ![r] = due[r] \ {reason}]
        /\ request' = [request EXCEPT ![r] = IF due'[r] = {} THEN "done" ELSE "notifying"]
    BY HandlersLeaveMain DEF Notify, recorder
  <1>2. /\ request \in [Requests -> {"none", "forwarded", "waiting", "hijacked", "publishing",
                                     "notifying", "done"}]
        /\ due \in [Requests -> SUBSET {"max-requests", "error"}]
        /\ reason \in due[r] /\ r \in recorded
        /\ cause \in {None, "max-requests", "error"}
        /\ None \notin {"max-requests", "error"}
    <2>1. due \in [Requests -> SUBSET {"max-requests", "error"}]
      BY DEF IInv, TypesOfRequests
    <2>2. due[r] # {} /\ r \in recorded
      BY <1>1 DEF IInv, RequestsAreRecorded
    <2>3. reason \in due[r]
      BY <2>1, <2>2
    <2>4. QED
      BY <2>1, <2>2, <2>3, NamesDiffer DEF IInv, TypesOfRequests, TypesOfMain
  <1>3. reason \in {"max-requests", "error"} /\ cause' # None
    BY <1>1, <1>2
  <1> HIDE DEF reason
  <1>4. /\ due'[r] = due[r] \ {reason} /\ \A t \in Requests \ {r} : due'[t] = due[t]
        /\ request'[r] = IF due'[r] = {} THEN "done" ELSE "notifying"
        /\ \A t \in Requests \ {r} : request'[t] = request[t]
    BY <1>1, <1>2
  <1>5. Failures' = Failures /\ Accepted' = Accepted
    BY <1>1, <1>4 DEF Failures, Accepted
  <1>6. TypesOfMain' /\ TypesOfServers' /\ TypesOfRequests' /\ TypesOfReport'
    <2>1. TypesOfMain'
      BY <1>1, <1>2, <1>3 DEF IInv, TypesOfMain
    <2>2. /\ request' \in [Requests -> {"none", "forwarded", "waiting", "hijacked", "publishing",
                                        "notifying", "done"}]
          /\ due' \in [Requests -> SUBSET {"max-requests", "error"}]
      BY <1>1, <1>2, <1>4
    <2>3. TypesOfRequests'
      BY <1>1, <2>2 DEF IInv, TypesOfRequests
    <2>4. QED
      BY <1>1, <2>1, <2>3, TypesFrame DEF IInv
  <1>7. StagesOfShutdown' /\ ResultsAreOnce'
    BY <1>1, StagesFrame, ResultsFrame DEF IInv
  <1>8. RequestsAreRecorded'
    BY <1>1, <1>4 DEF IInv, RequestsAreRecorded
  <1>9. RecorderIsRight'
    <2>1. reason = "max-requests" => limitReported
      BY <1>2 DEF IInv, RequestsAreRecorded
    <2>2. reason = "error" => ExitOnError /\ Failures # {}
      BY <1>2 DEF IInv, RequestsAreRecorded, Failures
    <2>3. QED
      BY <1>1, <1>2, <1>3, <1>5, <2>1, <2>2 DEF IInv, RecorderIsRight
  <1>10. SelectHadReason' /\ DataPlaneIsDrained' /\ OnlySlowIsLeft'
    <2>1. SelectHadReason'
      BY <1>1, <1>3 DEF IInv, SelectHadReason
    <2>2. DataPlaneIsDrained'
      BY <1>1, <1>4 DEF IInv, DataPlaneIsDrained, DataPlaneTimedOut
    <2>3. OnlySlowIsLeft'
      <3>1. request'[r] # "waiting" /\ hijacked' = hijacked /\ stream' = stream /\ expired' = expired
        BY <1>1, <1>4
      <3>2. \A t \in Requests : request[t] # "waiting" => request'[t] # "waiting"
        BY <1>4, <3>1
      <3>3. QED
        BY <3>1, <3>2 DEF IInv, OnlySlowIsLeft
    <2>4. QED
      BY <2>1, <2>2, <2>3
  <1>11. ReportIsOfRecorder' /\ ExitCodeIsOfErrors' /\ ReportExplainsExitCode'
    BY <1>1, <1>5, ReportFrame, ExitCodeFrame DEF IInv
  <1>12. QED
    BY <1>6, <1>7, <1>8, <1>9, <1>10, <1>11 DEF IInv

-------------------------------------------------------------------------------
(* run: from the select to the results of the servers and of the watcher.  *)

\* What main never changes.
LEMMA MainLeavesHandlers ==
    ASSUME main
    PROVE  /\ UNCHANGED <<maxRequests, signalled, cause, request, hijacked, failing, due, stream,
                          recorded, limitReported, errorReported>>
           /\ Failures' = Failures /\ Accepted' = Accepted
  BY DEF main, handlerVars, recorder, Failures, Accepted

\* There is no report and no exit code yet while run runs.
LEMMA NoReportYet ==
    ASSUME IInv, stage \in {"select", "shutdown", "drain", "collect"},
           stage' \in {"shutdown", "drain", "collect"}, UNCHANGED <<report, exitCode>>
    PROVE  ReportIsOfRecorder' /\ ExitCodeIsOfErrors' /\ ReportExplainsExitCode' /\ TypesOfReport'
  <1>1. report = None /\ report' = None /\ exitCode' = 0
    BY DEF IInv, ReportIsOfRecorder, ExitCodeIsOfErrors
  <1>2. QED
    BY <1>1 DEF ReportIsOfRecorder, ExitCodeIsOfErrors, ReportExplainsExitCode, TypesOfReport

\* The channel after a result was read.
LEMMA OneResultLess ==
    ASSUME NEW q \in Seq(Servers), q # <<>>, Len(q) <= 2
    PROVE  /\ 1 \in DOMAIN q /\ Head(q) = q[1] /\ Head(q) \in Servers
           /\ Tail(q) \in Seq(Servers) /\ Len(Tail(q)) <= 2
           /\ \A i \in DOMAIN Tail(q) : i + 1 \in DOMAIN q /\ Tail(q)[i] = q[i + 1] /\ i \in Nat
  <1>1. Len(q) \in Nat /\ Len(q) # 0 /\ DOMAIN q = 1 .. Len(q)
    OBVIOUS
  <1>2. /\ Tail(q) \in Seq(Servers) /\ Len(Tail(q)) = Len(q) - 1
        /\ \A i \in 1 .. Len(q) - 1 : Tail(q)[i] = q[i + 1]
    BY <1>1
  <1>3. QED
    BY <1>1, <1>2

\* Reading a result keeps the others apart.
LEMMA ReadingKeepsResults ==
    ASSUME IInv, serverResults # <<>>, serverResults' = Tail(serverResults), server' = server,
           inShutdown' = inShutdown
    PROVE  /\ Head(serverResults) \in Servers
           /\ server[Head(serverResults)] \in {"closed", "failed"}
           /\ serverResults' \in Seq(Servers) /\ Len(serverResults') <= 2
           /\ ResultsAreOnce'
  <1>1. serverResults \in Seq(Servers) /\ Len(serverResults) <= 2
    BY DEF IInv, TypesOfServers
  <1>2. /\ 1 \in DOMAIN serverResults /\ Head(serverResults) = serverResults[1]
        /\ Head(serverResults) \in Servers
        /\ serverResults' \in Seq(Servers) /\ Len(serverResults') <= 2
        /\ \A i \in DOMAIN serverResults' :
              /\ i + 1 \in DOMAIN serverResults /\ serverResults'[i] = serverResults[i + 1]
              /\ i \in Nat
    BY <1>1, OneResultLess
  <1>3. ASSUME NEW i \in DOMAIN serverResults', NEW j \in DOMAIN serverResults', i # j
        PROVE  serverResults'[i] # serverResults'[j]
    <2>1. i + 1 # j + 1
      BY <1>2, <1>3
    <2>2. QED
      BY <1>2, <2>1 DEF IInv, ResultsAreOnce
  <1>4. QED
    BY <1>2, <1>3 DEF IInv, ResultsAreOnce

\* Main leaves its select for a result, for the watcher or for a signal.
LEMMA SelectKeepsIInv ==
    ASSUME IInv, main, SelectResult \/ SelectWatcher \/ SelectSignal
    PROVE  IInv'
  <1>1. /\ UNCHANGED <<maxRequests, signalled, cause, request, hijacked, failing, due, stream,
                       recorded, limitReported, errorReported>>
        /\ Failures' = Failures /\ Accepted' = Accepted
    BY MainLeavesHandlers
  <1>2. /\ UNCHANGED <<turn, server, inShutdown, stopping, cut, expired, report, exitCode>>
        /\ stage = "select" /\ stage' = "shutdown"
        /\ watcher' \in {watcher, "read"}
        /\ serverResults' \in {serverResults, Tail(serverResults)}
    BY DEF SelectResult, SelectWatcher, SelectSignal, serverVars
  <1>3. inShutdown = {} /\ turn = "data plane" /\ errorsSeen = {} /\ expired = None
    BY <1>2 DEF IInv, StagesOfShutdown
  <1>4. /\ serverResults' \in Seq(Servers) /\ Len(serverResults') <= 2 /\ ResultsAreOnce'
        /\ errorsSeen' \subseteq {"data plane", "control plane", "config watcher"}
        /\ signalled \/ cause # None \/ errorsSeen' # {}
    <2>1. CASE SelectResult
      <3>1. /\ serverResults # <<>> /\ serverResults' = Tail(serverResults)
            /\ errorsSeen' = errorOf(Head(serverResults))
        BY <2>1 DEF SelectResult
      <3>2. /\ Head(serverResults) \in Servers
            /\ server[Head(serverResults)] \in {"closed", "failed"}
            /\ serverResults' \in Seq(Servers) /\ Len(serverResults') <= 2 /\ ResultsAreOnce'
        BY <1>2, <3>1, ReadingKeepsResults
      <3>3. server[Head(serverResults)] = "failed"
        BY <1>3, <3>2 DEF IInv, ResultsAreOnce
      <3>4. QED
        BY <3>1, <3>2, <3>3 DEF errorOf, Servers
    <2>2. CASE SelectWatcher
      <3>1. serverResults' = serverResults
        BY <2>2 DEF SelectWatcher, serverVars
      <3>2. QED
        BY <1>2, <2>2, <3>1, ResultsFrame DEF SelectWatcher, SignalContextDone, IInv, TypesOfServers
    <2>3. CASE SelectSignal
      <3>1. serverResults' = serverResults /\ errorsSeen' = {}
        BY <1>3, <2>3 DEF SelectSignal, serverVars
      <3>2. QED
        BY <1>2, <2>3, <3>1, ResultsFrame DEF SelectSignal, SignalContextDone, IInv, TypesOfServers
    <2>4. QED
      BY <2>1, <2>2, <2>3
  <1>5. TypesOfMain' /\ TypesOfServers' /\ TypesOfRequests'
    <2>1. TypesOfMain'
      BY <1>1, <1>2, <1>4 DEF IInv, TypesOfMain
    <2>2. TypesOfServers'
      BY <1>2, <1>4 DEF IInv, TypesOfServers
    <2>3. QED
      BY <1>1, <1>2, <2>1, <2>2, TypesFrame DEF IInv
  <1>6. StagesOfShutdown'
    BY <1>2, <1>3, <1>4 DEF StagesOfShutdown, DataPlaneTimedOut, AfterShutdown, IInv, TypesOfMain
  <1>7. SelectHadReason' /\ DataPlaneIsDrained'
    BY <1>1, <1>2, <1>3, <1>4 DEF SelectHadReason, DataPlaneIsDrained
  <1>8. RequestsAreRecorded' /\ RecorderIsRight' /\ OnlySlowIsLeft'
    BY <1>1, <1>2, RequestsFrame, RecorderFrame, SlowFrame DEF IInv
  <1>9. ReportIsOfRecorder' /\ ExitCodeIsOfErrors' /\ ReportExplainsExitCode' /\ TypesOfReport'
    BY <1>2, NoReportYet
  <1>10. QED
    BY <1>4, <1>5, <1>6, <1>7, <1>8, <1>9 DEF IInv

\* Shutdown of the server whose turn it is begins.
LEMMA ShutdownKeepsIInv ==
    ASSUME IInv, main, NEW s \in Servers, Shutdown(s)
    PROVE  IInv'
  <1>1. /\ UNCHANGED <<maxRequests, signalled, cause, request, hijacked, failing, due, stream,
                       recorded, limitReported, errorReported>>
        /\ Failures' = Failures /\ Accepted' = Accepted
    BY MainLeavesHandlers
  <1>2. /\ UNCHANGED <<turn, server, stopping, serverResults, watcher, cut, expired, errorsSeen,
                       report, exitCode>>
        /\ stage = "shutdown" /\ stage' = "drain" /\ turn = s
        /\ inShutdown' = inShutdown \cup {s}
    BY DEF Shutdown
  <1>3. TypesOfMain' /\ TypesOfServers' /\ TypesOfRequests'
    <2>1. TypesOfMain'
      BY <1>1, <1>2 DEF IInv, TypesOfMain
    <2>2. TypesOfServers'
      BY <1>2 DEF IInv, TypesOfServers
    <2>3. QED
      BY <1>1, <1>2, <2>1, <2>2, TypesFrame DEF IInv
  <1>4. StagesOfShutdown' /\ ResultsAreOnce'
    <2>1. ResultsAreOnce'
      BY <1>2, ResultsFrame DEF IInv
    <2>2. StagesOfShutdown'
      BY <1>2 DEF IInv, StagesOfShutdown, DataPlaneTimedOut, AfterShutdown
    <2>3. QED
      BY <2>1, <2>2
  <1>5. SelectHadReason' /\ DataPlaneIsDrained' /\ OnlySlowIsLeft'
    BY <1>1, <1>2, DrainedFrame, SlowFrame DEF IInv, SelectHadReason
  <1>6. RequestsAreRecorded' /\ RecorderIsRight'
    BY <1>1, <1>2, RequestsFrame, RecorderFrame DEF IInv
  <1>7. ReportIsOfRecorder' /\ ExitCodeIsOfErrors' /\ ReportExplainsExitCode' /\ TypesOfReport'
    BY <1>2, NoReportYet
  <1>8. QED
    BY <1>3, <1>4, <1>5, <1>6, <1>7 DEF IInv

\* Shutdown returns in time, with nothing tracked, or at the deadline, with its error.
LEMMA DrainKeepsIInv ==
    ASSUME IInv, main, NEW s \in Servers, Drained(s) \/ TimedOut(s)
    PROVE  IInv'
  <1>1. /\ UNCHANGED <<maxRequests, signalled, cause, request, hijacked, failing, due, stream,
                       recorded, limitReported, errorReported>>
        /\ Failures' = Failures /\ Accepted' = Accepted
    BY MainLeavesHandlers
  <1>2. /\ UNCHANGED <<server, inShutdown, stopping, serverResults, watcher, expired,
                       report, exitCode>>
        /\ stage = "drain" /\ turn = s /\ turn' = "control plane"
        /\ stage' = IF s = "data plane" THEN "shutdown" ELSE "collect"
        /\ errorsSeen' \in {errorsSeen, errorsSeen \cup {ShutdownError(s)}}
        /\ cut' \in {cut, cut \cup Tracked(s)}
    BY DEF Drained, TimedOut, NextServer, serverVars
  <1>3. s \in inShutdown /\ "data plane" \in inShutdown
    BY <1>2, NamesDiffer DEF IInv, StagesOfShutdown
  <1>4. TypesOfMain' /\ TypesOfServers' /\ TypesOfRequests'
    <2>1. TypesOfMain'
      BY <1>1, <1>2, NamesDiffer DEF IInv, TypesOfMain
    <2>2. Tracked(s) \subseteq Requests \cup {"stream"} /\ Tracked(s) \cap hijacked = {}
      BY NamesDiffer DEF Tracked, IInv, TypesOfRequests
    <2>3. TypesOfRequests'
      BY <1>1, <1>2, <2>2 DEF IInv, TypesOfRequests
    <2>4. QED
      BY <1>2, <2>1, <2>3, TypesFrame DEF IInv
  <1>5. ResultsAreOnce'
    BY <1>2, ResultsFrame DEF IInv
  <1>6. StagesOfShutdown'
    <2>1. DataPlaneTimedOut' => expired' # None
      <3>1. CASE Drained(s)
        BY <3>1 DEF Drained, IInv, StagesOfShutdown, DataPlaneTimedOut
      <3>2. CASE TimedOut(s)
        BY <3>2 DEF TimedOut
      <3>3. QED
        BY <3>1, <3>2
    <2>2. QED
      BY <1>2, <1>3, <2>1 DEF IInv, StagesOfShutdown, AfterShutdown
  <1>7. SelectHadReason'
    BY <1>1, <1>2 DEF IInv, SelectHadReason
  <1>8. RequestsAreRecorded'
    <2>1. \A r \in Requests : r \in Tracked(s) => request[r] # "none"
      BY NamesDiffer DEF Tracked
    <2>2. \A r \in Requests : request[r] = "none" => r \notin cut'
      BY <1>2, <2>1 DEF IInv, RequestsAreRecorded
    <2>3. QED
      BY <1>1, <2>2 DEF IInv, RequestsAreRecorded
  <1>9. RecorderIsRight' /\ OnlySlowIsLeft'
    BY <1>1, <1>2, RecorderFrame, SlowFrame DEF IInv
  <1>10. DataPlaneIsDrained'
    <2>1. CASE s = "control plane"
      BY <1>1, <1>2, <2>1 DEF IInv, DataPlaneIsDrained, DataPlaneTimedOut
    <2>2. CASE s = "data plane" /\ Drained(s)
      <3>1. \A r \in Requests \ hijacked : request[r] \in {"none", "done"}
        BY <2>2 DEF Drained, Tracked
      <3>2. QED
        BY <1>1, <3>1 DEF DataPlaneIsDrained
    <2>3. CASE s = "data plane" /\ TimedOut(s)
      <3>1. DataPlaneTimedOut'
        BY <2>3 DEF TimedOut, DataPlaneTimedOut, ShutdownError
      <3>2. QED
        BY <3>1 DEF DataPlaneIsDrained
    <2>4. QED
      BY <2>1, <2>2, <2>3 DEF Servers
  <1>11. ReportIsOfRecorder' /\ ExitCodeIsOfErrors' /\ ReportExplainsExitCode' /\ TypesOfReport'
    BY <1>2, NoReportYet
  <1>12. QED
    BY <1>4, <1>5, <1>6, <1>7, <1>8, <1>9, <1>10, <1>11 DEF IInv

\* The results of the servers are collected, and then the watcher's.
LEMMA CollectKeepsIInv ==
    ASSUME IInv, main, CollectResult \/ AwaitWatcher
    PROVE  IInv'
  <1>1. /\ UNCHANGED <<maxRequests, signalled, cause, request, hijacked, failing, due, stream,
                       recorded, limitReported, errorReported>>
        /\ Failures' = Failures /\ Accepted' = Accepted
    BY MainLeavesHandlers
  <1>2. /\ UNCHANGED <<turn, server, inShutdown, stopping, cut, expired, report>>
        /\ stage = "collect"
        /\ \/ /\ CollectResult
              /\ stage' = "collect" /\ UNCHANGED <<watcher, exitCode>>
              /\ serverResults # <<>> /\ serverResults' = Tail(serverResults)
              /\ errorsSeen' = errorsSeen \cup errorOf(Head(serverResults))
           \/ /\ stage' = "reason" /\ watcher' = "read" /\ serverResults' = serverResults
              /\ errorsSeen' \in {errorsSeen, errorsSeen \cup {"config watcher"}}
              /\ exitCode' = IF errorsSeen' = {} THEN 0 ELSE 1
    BY DEF CollectResult, AwaitWatcher, serverVars
  <1>3. /\ serverResults' \in Seq(Servers) /\ Len(serverResults') <= 2 /\ ResultsAreOnce'
        /\ \E e \in SUBSET {"data plane", "control plane", "config watcher"} :
              errorsSeen' = errorsSeen \cup e
    <2>1. CASE CollectResult
      <3>1. serverResults # <<>> /\ serverResults' = Tail(serverResults)
        BY <2>1 DEF CollectResult
      <3>2. /\ Head(serverResults) \in Servers
            /\ serverResults' \in Seq(Servers) /\ Len(serverResults') <= 2 /\ ResultsAreOnce'
        BY <1>2, <3>1, ReadingKeepsResults
      <3>3. /\ errorOf(Head(serverResults)) \in SUBSET {"data plane", "control plane", "config watcher"}
            /\ errorsSeen' = errorsSeen \cup errorOf(Head(serverResults))
        BY <2>1, <3>2 DEF CollectResult, errorOf, Servers
      <3>4. QED
        BY <3>2, <3>3
    <2>2. CASE serverResults' = serverResults /\ errorsSeen' \in {errorsSeen, errorsSeen \cup {"config watcher"}}
      <3>1. ResultsAreOnce'
        BY <1>2, <2>2, ResultsFrame DEF IInv
      <3>2. errorsSeen' = errorsSeen \cup {} \/ errorsSeen' = errorsSeen \cup {"config watcher"}
        BY <2>2
      <3>3. QED
        BY <2>2, <3>1, <3>2 DEF IInv, TypesOfServers
    <2>3. QED
      BY <1>2, <2>1, <2>2
  <1>4. errorsSeen \subseteq errorsSeen' /\ (DataPlaneTimedOut' <=> DataPlaneTimedOut)
    <2>1. PICK e \in SUBSET {"data plane", "control plane", "config watcher"} :
             errorsSeen' = errorsSeen \cup e
      BY <1>3
    <2>2. "shutdown data plane" \notin e
      OBVIOUS
    <2>3. errorsSeen \subseteq errorsSeen'
      BY <2>1
    <2>4. "shutdown data plane" \in errorsSeen' <=> "shutdown data plane" \in errorsSeen
      BY <2>1, <2>2
    <2>5. QED
      BY <2>3, <2>4 DEF DataPlaneTimedOut
  <1>5. TypesOfMain' /\ TypesOfServers' /\ TypesOfRequests'
    <2>1. TypesOfMain'
      BY <1>1, <1>2, <1>3 DEF IInv, TypesOfMain
    <2>2. TypesOfServers'
      BY <1>2, <1>3 DEF IInv, TypesOfServers
    <2>3. QED
      BY <1>1, <1>2, <2>1, <2>2, TypesFrame DEF IInv
  <1>6. StagesOfShutdown'
    BY <1>2, <1>4 DEF IInv, StagesOfShutdown, AfterShutdown
  <1>7. SelectHadReason' /\ DataPlaneIsDrained' /\ OnlySlowIsLeft'
    BY <1>1, <1>2, <1>4, SlowFrame DEF IInv, SelectHadReason, DataPlaneIsDrained
  <1>8. RequestsAreRecorded' /\ RecorderIsRight'
    BY <1>1, <1>2, RequestsFrame, RecorderFrame DEF IInv
  <1>9. ReportIsOfRecorder' /\ ReportExplainsExitCode' /\ TypesOfReport'
    BY <1>2 DEF IInv, ReportIsOfRecorder, ReportExplainsExitCode, TypesOfReport
  <1>10. ExitCodeIsOfErrors'
    <2>1. exitCode = 0
      BY <1>2 DEF IInv, ExitCodeIsOfErrors
    <2>2. CASE CollectResult
      BY <2>1, <2>2 DEF CollectResult, ExitCodeIsOfErrors
    <2>3. CASE AwaitWatcher
      <3>1. stage' = "reason" /\ exitCode' = IF errorsSeen' = {} THEN 0 ELSE 1
        BY <2>3 DEF AwaitWatcher
      <3>2. QED
        BY <3>1 DEF ExitCodeIsOfErrors
    <2>4. QED
      BY <2>2, <2>3
  <1>11. QED
    BY <1>3, <1>5, <1>6, <1>7, <1>8, <1>9, <1>10 DEF IInv

\* The deadline passes: what is left waits for a peer.
LEMMA ExpireKeepsIInv ==
    ASSUME IInv, Expire
    PROVE  IInv'
  <1>1. /\ UNCHANGED <<maxRequests, signalled, cause, stage, turn, errorsSeen, report, exitCode,
                       server, inShutdown, stopping, serverResults, watcher, request, hijacked,
                       failing, due, stream, cut, recorded, limitReported, errorReported>>
        /\ expired = None /\ expired' = turn /\ stage = "drain" /\ turn \in stopping
        /\ Slow(turn)
    BY DEF Expire, serverVars, handlerVars, recorder
  <1>2. Failures' = Failures /\ Accepted' = Accepted
    BY <1>1 DEF Failures, Accepted
  <1>3. TypesOfMain' /\ TypesOfServers' /\ TypesOfRequests' /\ TypesOfReport'
    <2>1. TypesOfMain'
      BY <1>1 DEF IInv, TypesOfMain
    <2>2. QED
      BY <1>1, <2>1, TypesFrame DEF IInv
  <1>4. StagesOfShutdown'
    BY <1>1 DEF IInv, StagesOfShutdown, TypesOfServers, DataPlaneTimedOut, AfterShutdown
  <1>5. OnlySlowIsLeft'
    <2>1. turn = "data plane" => \A r \in Requests \ hijacked : request[r] # "waiting"
      BY <1>1 DEF Slow, Tracked
    <2>2. turn = "control plane" => stream # "open"
      BY <1>1 DEF Slow
    <2>3. QED
      BY <1>1, <2>1, <2>2 DEF OnlySlowIsLeft
  <1>6. SelectHadReason' /\ DataPlaneIsDrained' /\ ResultsAreOnce'
    BY <1>1, DrainedFrame, ResultsFrame DEF IInv, SelectHadReason
  <1>7. RequestsAreRecorded' /\ RecorderIsRight'
    BY <1>1, RequestsFrame, RecorderFrame DEF IInv
  <1>8. ReportIsOfRecorder'
    BY <1>1 DEF IInv, ReportIsOfRecorder
  <1>9. ExitCodeIsOfErrors' /\ ReportExplainsExitCode'
    BY <1>1, <1>2, ExitCodeFrame DEF IInv
  <1>10. QED
    BY <1>3, <1>4, <1>5, <1>6, <1>7, <1>8, <1>9 DEF IInv

-------------------------------------------------------------------------------
(* main after run: the report and the exit code.                           *)

\* What does not change any more after run.
LEMMA FinishKeepsTheRest ==
    ASSUME IInv, main, finish,
           stage \in {"reason", "report", "write", "count"},
           stage' \in {"report", "write", "count", "exited"}, exitCode' \in {0, 1}
    PROVE  /\ TypesOfMain' /\ TypesOfServers' /\ TypesOfRequests' /\ StagesOfShutdown'
           /\ ResultsAreOnce' /\ SelectHadReason' /\ RequestsAreRecorded' /\ RecorderIsRight'
           /\ DataPlaneIsDrained' /\ OnlySlowIsLeft'
           /\ UNCHANGED <<maxRequests, signalled, cause, errorsSeen, expired, limitReported,
                          hijacked>>
           /\ Failures' = Failures /\ Accepted' = Accepted /\ recorded' = recorded
           /\ DataPlaneTimedOut' = DataPlaneTimedOut
  <1>1. /\ UNCHANGED <<maxRequests, signalled, cause, request, hijacked, failing, due, stream,
                       recorded, limitReported, errorReported>>
        /\ Failures' = Failures /\ Accepted' = Accepted
    BY MainLeavesHandlers
  <1>2. UNCHANGED <<turn, server, inShutdown, stopping, serverResults, watcher, cut, expired,
                    errorsSeen>>
    BY DEF finish, serverVars
  <1>3. TypesOfMain' /\ TypesOfServers' /\ TypesOfRequests'
    <2>1. TypesOfMain'
      BY <1>1, <1>2 DEF IInv, TypesOfMain
    <2>2. QED
      BY <1>1, <1>2, <2>1, TypesFrame DEF IInv
  <1>4. StagesOfShutdown' /\ SelectHadReason'
    BY <1>1, <1>2 DEF IInv, StagesOfShutdown, SelectHadReason, DataPlaneTimedOut, AfterShutdown
  <1>5. ResultsAreOnce' /\ DataPlaneIsDrained' /\ OnlySlowIsLeft' /\ RequestsAreRecorded'
           /\ RecorderIsRight'
    BY <1>1, <1>2, ResultsFrame, DrainedFrame, SlowFrame, RequestsFrame, RecorderFrame DEF IInv
  <1>6. QED
    BY <1>1, <1>2, <1>3, <1>4, <1>5 DEF DataPlaneTimedOut

\* Without the deadline's error, every request of the data plane is recorded and has
\* called its callbacks once Shutdown is over, but for hijacked ones.
LEMMA AfterADrainNothingIsDue ==
    ASSUME IInv, stage \in AfterShutdown, ~DataPlaneTimedOut
    PROVE  /\ Accepted \subseteq recorded
           /\ \A r \in Requests : "error" \in due[r] => r \in HijackedFailures
  <1>1. \A r \in Requests \ hijacked : request[r] \in {"none", "done"}
    BY DEF IInv, StagesOfShutdown, DataPlaneIsDrained
  <1>2. \A r \in Requests : "error" \in due[r] => request[r] = "notifying" /\ r \in Failures
    BY DEF IInv, RequestsAreRecorded, Failures
  <1>3. \A r \in Requests : "error" \in due[r] => r \in HijackedFailures
    BY <1>1, <1>2 DEF HijackedFailures
  <1>4. Accepted \subseteq recorded
    BY <1>1 DEF IInv, RequestsAreRecorded, Accepted
  <1>5. QED
    BY <1>3, <1>4

\* stopReason.
LEMMA ReasonKeepsIInv ==
    ASSUME IInv, main, finish, Reason
    PROVE  IInv'
  <1>1. /\ stage = "reason" /\ stage' = "report" /\ exitCode' = exitCode
        /\ report' = [stoppedBy |-> stopReason, requests |-> {}, errors |-> {}, written |-> FALSE]
    BY DEF Reason
  <1>2. exitCode \in {0, 1} /\ cause \in {None, "max-requests", "error"}
    BY DEF IInv, TypesOfMain
  <1>3. /\ TypesOfMain' /\ TypesOfServers' /\ TypesOfRequests' /\ StagesOfShutdown'
        /\ ResultsAreOnce' /\ SelectHadReason' /\ RequestsAreRecorded' /\ RecorderIsRight'
        /\ DataPlaneIsDrained' /\ OnlySlowIsLeft'
        /\ UNCHANGED <<maxRequests, signalled, cause, errorsSeen, expired, limitReported, hijacked>>
        /\ Failures' = Failures
    BY <1>1, <1>2, FinishKeepsTheRest
  <1>4. /\ stopReason \in {"max-requests", "error", "server-error", "signal"}
        /\ stopReason = "max-requests" => limitReported
        /\ stopReason = "error" => ExitOnError /\ Failures # {}
        /\ stopReason = "server-error" => errorsSeen # {}
        /\ stopReason = "signal" => signalled
    <2>1. cause # None => stopReason = cause /\ stopReason \in {"max-requests", "error"}
      BY <1>2 DEF stopReason
    <2>2. cause = None => stopReason = IF errorsSeen # {} THEN "server-error" ELSE "signal"
      BY DEF stopReason
    <2>3. cause = None /\ errorsSeen = {} => signalled
      BY <1>1 DEF IInv, SelectHadReason
    <2>4. QED
      BY <2>1, <2>2, <2>3 DEF IInv, RecorderIsRight
  <1>5. ExitOnError /\ Failures # {} /\ HijackedFailures = {} /\ expired = None => cause # None
    <2> SUFFICES ASSUME ExitOnError, Failures # {}, HijackedFailures = {}, expired = None
                 PROVE  cause # None
      OBVIOUS
    <2>1. ~DataPlaneTimedOut
      BY DEF IInv, StagesOfShutdown
    <2>2. \A r \in Requests : "error" \notin due[r]
      BY <1>1, <2>1, AfterADrainNothingIsDue DEF AfterShutdown
    <2>3. QED
      BY <2>2 DEF IInv, RecorderIsRight
  <1>6. ReportIsOfRecorder'
    <2>1. cause # None => stopReason \in {"error", "max-requests"}
      BY <1>2 DEF stopReason
    <2>2. /\ report' \in Reports /\ report'.stoppedBy = stopReason
      BY <1>1, <1>4 DEF Reports
    <2>3. HijackedFailures' = HijackedFailures
      BY <1>3 DEF HijackedFailures
    <2>4. QED
      BY <1>1, <1>3, <1>4, <1>5, <2>1, <2>2, <2>3 DEF ReportIsOfRecorder
  <1>7. TypesOfReport' /\ ExitCodeIsOfErrors' /\ ReportExplainsExitCode'
    BY <1>1, <1>3 DEF IInv, TypesOfReport, ExitCodeIsOfErrors, ReportExplainsExitCode
  <1>8. QED
    BY <1>3, <1>6, <1>7 DEF IInv

\* Recorder.Report.
LEMMA ReportKeepsIInv ==
    ASSUME IInv, main, finish, Report
    PROVE  IInv'
  <1>1. /\ stage = "report" /\ stage' = "write" /\ exitCode' = exitCode
        /\ report' = [report EXCEPT !.requests = recorded, !.errors = Failures]
        /\ report \in Reports
    BY DEF Report, IInv, ReportIsOfRecorder
  <1>2. exitCode \in {0, 1} /\ recorded \subseteq Requests /\ Failures \subseteq Requests
    BY DEF IInv, TypesOfMain, TypesOfRequests, Failures
  <1>3. /\ TypesOfMain' /\ TypesOfServers' /\ TypesOfRequests' /\ StagesOfShutdown'
        /\ ResultsAreOnce' /\ SelectHadReason' /\ RequestsAreRecorded' /\ RecorderIsRight'
        /\ DataPlaneIsDrained' /\ OnlySlowIsLeft'
        /\ UNCHANGED <<maxRequests, signalled, cause, errorsSeen, expired, limitReported, hijacked>>
        /\ Failures' = Failures /\ Accepted' = Accepted /\ recorded' = recorded
        /\ DataPlaneTimedOut' = DataPlaneTimedOut
    BY <1>1, <1>2, FinishKeepsTheRest
  <1>4. /\ report' \in Reports /\ report'.stoppedBy = report.stoppedBy
        /\ report'.requests = recorded /\ report'.errors = Failures
    BY <1>1, <1>2 DEF Reports
  <1>5. ReportIsOfRecorder'
    <2>1. /\ report'.stoppedBy = "max-requests" => limitReported'
          /\ report'.stoppedBy = "error" => ExitOnError /\ Failures' # {}
          /\ report'.stoppedBy = "server-error" => errorsSeen' # {}
          /\ report'.stoppedBy = "signal" => signalled'
      BY <1>1, <1>3, <1>4 DEF IInv, ReportIsOfRecorder
    <2>2. report'.stoppedBy = "max-requests" =>
             maxRequests' > 0 /\ Cardinality(report'.requests) >= maxRequests'
      BY <1>3, <1>4, <2>1 DEF IInv, RecorderIsRight
    <2>3. report'.stoppedBy = "error" => report'.errors # {}
      BY <1>3, <1>4, <2>1
    <2>4. ~DataPlaneTimedOut' => /\ Failures' \ hijacked' \subseteq report'.errors
                                 /\ Accepted' \subseteq report'.requests
      <3>1. ~DataPlaneTimedOut => Accepted \subseteq recorded
        BY <1>1, AfterADrainNothingIsDue DEF AfterShutdown
      <3>2. QED
        BY <1>3, <1>4, <3>1
    <2>5. /\ ExitOnError /\ expired' = None
          /\ report'.errors # {} /\ report'.errors \cap hijacked' = {}
          => report'.stoppedBy \in {"error", "max-requests"}
      <3>1. ExitOnError /\ Failures # {} /\ HijackedFailures = {} /\ expired = None =>
               report.stoppedBy \in {"error", "max-requests"}
        BY <1>1 DEF IInv, ReportIsOfRecorder
      <3>2. QED
        BY <1>3, <1>4, <3>1 DEF HijackedFailures
    <2>6. QED
      BY <1>1, <1>4, <2>1, <2>2, <2>3, <2>4, <2>5 DEF ReportIsOfRecorder, Accepted
  <1>6. TypesOfReport'
    BY <1>3, <1>4 DEF TypesOfReport
  <1>7. ExitCodeIsOfErrors' /\ ReportExplainsExitCode'
    BY <1>1, <1>3 DEF IInv, ExitCodeIsOfErrors, ReportExplainsExitCode
  <1>8. QED
    BY <1>3, <1>5, <1>6, <1>7 DEF IInv

\* What is known of a report that counts the requests stays with what it counts.
LEMMA ReportStays ==
    ASSUME IInv, stage \in {"write", "count"}, stage' \in {"count", "exited"},
           report' \in Reports, report'.stoppedBy = report.stoppedBy,
           report'.requests = report.requests, report'.errors = report.errors,
           UNCHANGED <<maxRequests, signalled, cause, errorsSeen, expired, limitReported, hijacked>>,
           Failures' = Failures, Accepted' = Accepted, recorded' = recorded,
           DataPlaneTimedOut' = DataPlaneTimedOut
    PROVE  ReportIsOfRecorder' /\ TypesOfReport'
  <1>1. /\ report'.stoppedBy = "max-requests" => limitReported'
        /\ report'.stoppedBy = "error" => ExitOnError /\ Failures' # {}
        /\ report'.stoppedBy = "server-error" => errorsSeen' # {}
        /\ report'.stoppedBy = "signal" => signalled'
    BY DEF IInv, ReportIsOfRecorder
  <1>2. /\ report'.stoppedBy = "max-requests" =>
              maxRequests' > 0 /\ Cardinality(report'.requests) >= maxRequests'
        /\ report'.stoppedBy = "error" => report'.errors # {}
        /\ /\ ExitOnError /\ expired' = None
           /\ report'.errors # {} /\ report'.errors \cap hijacked' = {}
           => report'.stoppedBy \in {"error", "max-requests"}
    BY DEF IInv, ReportIsOfRecorder
  <1>3. ~DataPlaneTimedOut' => /\ Failures' \ hijacked' \subseteq report'.errors
                               /\ Accepted' \subseteq report'.requests
    BY DEF IInv, ReportIsOfRecorder, Accepted
  <1>4. ReportIsOfRecorder'
    BY <1>1, <1>2, <1>3 DEF ReportIsOfRecorder, Accepted
  <1>5. QED
    BY <1>4 DEF IInv, TypesOfReport

\* WriteFile: a report that is not written fails the run.
LEMMA WriteKeepsIInv ==
    ASSUME IInv, main, finish, WriteFile
    PROVE  IInv'
  <1>1. PICK written \in BOOLEAN :
           /\ stage = "write" /\ stage' = "count"
           /\ report' = [report EXCEPT !.written = written]
           /\ exitCode' = IF written THEN exitCode ELSE 1
    BY DEF WriteFile
  <1>2. exitCode' \in {0, 1} /\ report \in Reports
    BY <1>1 DEF IInv, TypesOfMain, ReportIsOfRecorder
  <1>3. /\ TypesOfMain' /\ TypesOfServers' /\ TypesOfRequests' /\ StagesOfShutdown'
        /\ ResultsAreOnce' /\ SelectHadReason' /\ RequestsAreRecorded' /\ RecorderIsRight'
        /\ DataPlaneIsDrained' /\ OnlySlowIsLeft'
        /\ UNCHANGED <<maxRequests, signalled, cause, errorsSeen, expired, limitReported, hijacked>>
        /\ Failures' = Failures /\ Accepted' = Accepted /\ recorded' = recorded
        /\ DataPlaneTimedOut' = DataPlaneTimedOut
    BY <1>1, <1>2, FinishKeepsTheRest
  <1>4. /\ report' \in Reports /\ report'.stoppedBy = report.stoppedBy
        /\ report'.requests = report.requests /\ report'.errors = report.errors
        /\ report'.written = written
    BY <1>1, <1>2 DEF Reports
  <1>5. ReportIsOfRecorder' /\ TypesOfReport'
    BY <1>1, <1>3, <1>4, ReportStays
  <1>6. ExitCodeIsOfErrors' /\ ReportExplainsExitCode'
    BY <1>1, <1>3, <1>4 DEF IInv, ExitCodeIsOfErrors, ReportExplainsExitCode
  <1>7. QED
    BY <1>3, <1>5, <1>6 DEF IInv

\* ErrorCount: it finds what the report says, unless the deadline's error is there or a
\* hijacked request failed.
LEMMA CountKeepsIInv ==
    ASSUME IInv, main, finish, ErrorCount
    PROVE  IInv'
  <1>1. /\ stage = "count" /\ stage' = "exited" /\ report' = report
        /\ exitCode' = IF ExitOnError /\ Failures # {} THEN 1 ELSE exitCode
    BY DEF ErrorCount
  <1>2. exitCode' \in {0, 1} /\ report \in Reports
    BY <1>1 DEF IInv, TypesOfMain, ReportIsOfRecorder
  <1>3. /\ TypesOfMain' /\ TypesOfServers' /\ TypesOfRequests' /\ StagesOfShutdown'
        /\ ResultsAreOnce' /\ SelectHadReason' /\ RequestsAreRecorded' /\ RecorderIsRight'
        /\ DataPlaneIsDrained' /\ OnlySlowIsLeft'
        /\ UNCHANGED <<maxRequests, signalled, cause, errorsSeen, expired, limitReported, hijacked>>
        /\ Failures' = Failures /\ Accepted' = Accepted /\ recorded' = recorded
        /\ DataPlaneTimedOut' = DataPlaneTimedOut
    BY <1>1, <1>2, FinishKeepsTheRest
  <1>4. ReportIsOfRecorder' /\ TypesOfReport'
    BY <1>1, <1>2, <1>3, ReportStays
  <1>5. ExitOnError /\ report.errors # {} => exitCode' = 1
    BY <1>1 DEF IInv, TypesOfReport
  <1>6. exitCode' = 1 /\ report.written =>
           \/ errorsSeen # {}
           \/ ExitOnError /\ (report.errors # {} \/ Failures \cap hijacked # {})
    <2>1. CASE ExitOnError /\ Failures # {}
      <3>1. DataPlaneTimedOut => errorsSeen # {}
        BY DEF DataPlaneTimedOut
      <3>2. ~DataPlaneTimedOut => Failures \ hijacked \subseteq report.errors
        BY <1>1 DEF IInv, ReportIsOfRecorder
      <3>3. QED
        BY <2>1, <3>1, <3>2
    <2>2. CASE ~(ExitOnError /\ Failures # {})
      BY <1>1, <2>2 DEF IInv, ExitCodeIsOfErrors
    <2>3. QED
      BY <2>1, <2>2
  <1>7. ExitCodeIsOfErrors' /\ ReportExplainsExitCode'
    BY <1>1, <1>3, <1>5, <1>6 DEF ExitCodeIsOfErrors, ReportExplainsExitCode
  <1>8. QED
    BY <1>3, <1>4, <1>7 DEF IInv

-------------------------------------------------------------------------------
(* The theorems.                                                           *)

\* Every step keeps the inductive invariant.
LEMMA NextKeepsIInv == IInv /\ [Next]_vars => IInv'
  <1> SUFFICES ASSUME IInv, [Next]_vars PROVE IInv'
    OBVIOUS
  <1>1. ASSUME NEW s \in Servers, serve(s) \/ BeginShutdown(s)
        PROVE  IInv'
    BY <1>1, ServeKeepsIInv, QuietKeepsIInv
  <1>2. CASE WatcherReturns \/ Signal
    BY <1>2, QuietKeepsIInv, SignalKeepsIInv
  <1>3. ASSUME NEW r \in Requests, ServeHTTP(r)
        PROVE  IInv'
    <2>1. Arrive(r) \/ HandlerEnds(r) \/ record(r) \/ Notify(r)
      BY <1>3 DEF ServeHTTP
    <2>2. QED
      BY <1>3, <2>1, ArriveKeepsIInv, HandlerEndsKeepsIInv, RecordKeepsIInv, NotifyKeepsIInv
  <1>4. CASE streamEvents
    BY <1>4, StreamKeepsIInv
  <1>5. CASE main
    <2>1. CASE run
      <3>1. CASE SelectResult \/ SelectWatcher \/ SelectSignal
        BY <1>5, <3>1, SelectKeepsIInv
      <3>2. ASSUME NEW s \in Servers, Shutdown(s) \/ Drained(s) \/ TimedOut(s)
            PROVE  IInv'
        BY <1>5, <3>2, ShutdownKeepsIInv, DrainKeepsIInv
      <3>3. CASE CollectResult \/ AwaitWatcher
        BY <1>5, <3>3, CollectKeepsIInv
      <3>4. QED
        BY <2>1, <3>1, <3>2, <3>3 DEF run
    <2>2. CASE finish
      <3>1. Reason \/ Report \/ WriteFile \/ ErrorCount
        BY <2>2 DEF finish
      <3>2. QED
        BY <1>5, <2>2, <3>1, ReasonKeepsIInv, ReportKeepsIInv, WriteKeepsIInv, CountKeepsIInv
    <2>3. QED
      BY <1>5, <2>1, <2>2 DEF main
  <1>6. CASE Expire
    BY <1>6, ExpireKeepsIInv
  <1>7. CASE Done \/ UNCHANGED vars
    BY <1>7, QuietKeepsIInv DEF Done
  <1>8. QED
    BY <1>1, <1>2, <1>3, <1>4, <1>5, <1>6, <1>7 DEF Next

\* The inductive invariant holds in every state the process reaches, for any requests,
\* limits and options.
THEOREM InductiveInvariant == Spec => []IInv
  <1>1. QED
    BY InitIInv, NextKeepsIInv, PTL DEF Spec

\* The variables have their types; a connection Close cuts was not hijacked, and what
\* the report counts was recorded.
THEOREM TypeCorrect == Spec => []TypeOK
  <1>1. IInv => TypeOK
    BY PartsOfTypeOK DEF IInv
  <1>2. QED
    BY <1>1, InductiveInvariant, PTL

\* Every request the data plane accepted is in the report, unless its connection was
\* hijacked or the deadline passed in the Shutdown of the data plane (server.go:120).
THEOREM NoRequestIsMissing == Spec => []ReportIsComplete
  <1>1. IInv => ReportIsComplete
    BY NamesDiffer DEF IInv, ReportIsOfRecorder, ReportIsComplete, DataPlaneTimedOut
  <1>2. QED
    BY <1>1, InductiveInvariant, PTL

\* The reason in the report is borne out by the same report (main.go's stopReason), and
\* is no signal when an error stopped the run that the shutdown waited for.
THEOREM ReasonIsBorneOut == Spec => []StopReasonIsTrue
  <1>1. ASSUME IInv PROVE StopReasonIsTrue
    <2> SUFFICES ASSUME stage \in {"write", "count", "exited"}
                 PROVE  /\ CASE report.stoppedBy = "max-requests" ->
                                    maxRequests > 0 /\ Cardinality(report.requests) >= maxRequests
                              [] report.stoppedBy = "error" -> ExitOnError /\ report.errors # {}
                              [] report.stoppedBy = "server-error" -> errorsSeen # {}
                              [] report.stoppedBy = "signal" -> signalled
                        /\ /\ ExitOnError /\ expired = None
                           /\ report.errors # {} /\ report.errors \cap hijacked = {}
                           => report.stoppedBy \in {"error", "max-requests"}
      BY DEF StopReasonIsTrue
    <2>1. /\ report.stoppedBy \in {"max-requests", "error", "server-error", "signal"}
          /\ report.stoppedBy = "max-requests" =>
                maxRequests > 0 /\ Cardinality(report.requests) >= maxRequests
          /\ report.stoppedBy = "error" => ExitOnError /\ report.errors # {}
          /\ report.stoppedBy = "server-error" => errorsSeen # {}
          /\ report.stoppedBy = "signal" => signalled
      BY <1>1 DEF IInv, ReportIsOfRecorder, Reports
    <2>2. /\ ExitOnError /\ expired = None
          /\ report.errors # {} /\ report.errors \cap hijacked = {}
          => report.stoppedBy \in {"error", "max-requests"}
      BY <1>1 DEF IInv, ReportIsOfRecorder
    <2>3. CASE report.stoppedBy = "max-requests"
      BY <2>1, <2>2, <2>3
    <2>4. CASE report.stoppedBy = "error"
      BY <2>1, <2>2, <2>4
    <2>5. CASE report.stoppedBy = "server-error"
      BY <2>1, <2>2, <2>5
    <2>6. CASE report.stoppedBy = "signal"
      BY <2>1, <2>2, <2>6
    <2>7. QED
      BY <2>1, <2>3, <2>4, <2>5, <2>6
  <1>2. QED
    BY <1>1, InductiveInvariant, PTL

\* The exit code and the report agree, although main reads the recorder twice
\* (main.go:117, 130), but for what a hijacked connection adds between the two.
THEOREM ExitCodeIsExplained == Spec => []ReportExplainsExitCode
  <1>1. IInv => ReportExplainsExitCode
    BY DEF IInv
  <1>2. QED
    BY <1>1, InductiveInvariant, PTL

\* A step cuts only what the deadline found waiting for a peer.
LEMMA StepCutsOnlySlow ==
    ASSUME IInv, [Next]_vars
    PROVE  \A c \in cut' \ cut :
              IF c = "stream" THEN stream = "stuck" \/ expired = "data plane"
                              ELSE request[c] # "waiting"
  <1> SUFFICES ASSUME NEW c \in cut' \ cut
               PROVE  IF c = "stream" THEN stream = "stuck" \/ expired = "data plane"
                                      ELSE request[c] # "waiting"
    OBVIOUS
  <1>1. PICK s \in Servers : TimedOut(s)
    BY DEF Next, serve, BeginShutdown, WatcherReturns, Signal, ServeHTTP, streamEvents, main, run,
           finish, SelectResult, SelectWatcher, SelectSignal, Shutdown, Drained, CollectResult,
           AwaitWatcher, Expire, Done, vars
  <1>2. c \in Tracked(s) /\ expired \in Servers /\ turn = s
    BY <1>1 DEF TimedOut, IInv, TypesOfMain
  <1>3. CASE s = "data plane"
    <2>1. c \in Requests \ hijacked /\ c # "stream"
      BY <1>2, <1>3, NamesDiffer DEF Tracked
    <2>2. expired = "data plane"
      BY <1>2, <1>3, NamesDiffer DEF IInv, StagesOfShutdown
    <2>3. QED
      BY <2>1, <2>2 DEF IInv, OnlySlowIsLeft
  <1>4. CASE s = "control plane"
    <2>1. c = "stream" /\ stream \in {"open", "stuck"}
      BY <1>2, <1>4 DEF Tracked
    <2>2. expired = "data plane" \/ stream # "open"
      BY <1>2 DEF Servers, IInv, OnlySlowIsLeft
    <2>3. QED
      BY <2>1, <2>2
  <1>5. QED
    BY <1>3, <1>4 DEF Servers

\* The deadline cuts what is slow by itself: no injected wait, and no dashboard that
\* reads, unless the data plane used the deadline up (server.go:120).
THEOREM NothingQuickIsCut == Spec => OnlySlowPeersAreCut
  <1>1. IInv /\ [Next]_vars =>
           [\A c \in cut' \ cut :
               IF c = "stream" THEN stream = "stuck" \/ expired = "data plane"
                               ELSE request[c] # "waiting"]_vars
    BY StepCutsOnlySlow
  <1>2. QED
    BY <1>1, InductiveInvariant, PTL DEF Spec, OnlySlowPeersAreCut

================================================================================
