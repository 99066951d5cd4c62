------------------------------ MODULE BodyReaders ------------------------------
(***************************************************************************)
(* The readers that truncate, stall and bandwidth put around a response    *)
(* body (internal/faults), and the loop of httputil.ReverseProxy that      *)
(* reads the outermost one until it fails or ends.  What a client gets, and *)
(* when, depends on the sizes of the buffers and of what the API sends at a *)
(* time.                                                                   *)
(*                                                                         *)
(* A fault is a record of its settings with "on".  The unit of time is the *)
(* time one byte takes at the bandwidth's rate; reading takes none.  The   *)
(* client stays and the proxy goes on: RequestPipeline has what ends waits. *)
(***************************************************************************)
EXTENDS Integers, Sequences

CONSTANT
    MaxBuffered    \* what truncate reads ahead of a body of unknown length

ASSUME BufferAssumption == MaxBuffered \in Nat

Smaller(a, b) == IF a < b THEN a ELSE b
Larger(a, b) == IF a > b THEN a ELSE b

(* A body as the API sends it: its length, whether Content-Length says so,   *)
(* how much a Read returns, and whether io.EOF comes with the last bytes.    *)
(* truncate.at is in percent; an at of 1 cuts nothing.                       *)
Cuts(truncate) == truncate.on /\ truncate.at < 100
Counted(body) == IF body.known THEN body.length ELSE Smaller(body.length, MaxBuffered)

(* The fields of the readers, the clock, and the bytes delivered so far. *)
Wrap(body, truncate, stall) ==
    [left |-> body.length, remaining |-> (Counted(body) * truncate.at) \div 100,
     stallSent |-> 0, stalled |-> ~stall.on, clock |-> 0, sent |-> 0]

(* A Read returns the reader's state, the bytes read and how it ended. *)
Got(state, read, err) == [state |-> state, read |-> read, err |-> err]

(* What truncate read ahead is in memory: a Read returns all there is room for. *)
bodyRead(body, truncate, s, size) ==
    LET ahead == Cuts(truncate) /\ ~body.known
        read == Smaller(s.left, IF ahead THEN size ELSE Smaller(size, body.chunk))
        rest == s.left - read
    IN  Got([s EXCEPT !.left = rest], read,
            IF rest = 0 /\ (read = 0 \/ (body.eofWithData /\ ~ahead)) THEN "EOF" ELSE "none")

truncatedRead(body, truncate, s, size) ==
    LET inner == bodyRead(body, truncate, s, Smaller(size, s.remaining))
    IN  CASE ~Cuts(truncate) -> bodyRead(body, truncate, s, size)
          [] Cuts(truncate) /\ s.remaining <= 0 -> Got(s, 0, "truncated")
          [] OTHER -> [inner EXCEPT !.state.remaining = @ - inner.read]

\* Mutant of stalledRead: a Read may go past the byte the stall is to come after.
stalledReadPast(body, truncate, stall, s, size) ==
    LET due == ~s.stalled /\ s.stallSent >= stall.afterBytes
        waited == IF due THEN [s EXCEPT !.stalled = TRUE, !.clock = @ + stall.duration] ELSE s
        inner == truncatedRead(body, truncate, waited, size)
    IN  [inner EXCEPT !.state.stallSent = @ + inner.read]

stalledRead(body, truncate, stall, s, size) ==
    LET due == ~s.stalled /\ s.stallSent >= stall.afterBytes
        waited == IF due THEN [s EXCEPT !.stalled = TRUE, !.clock = @ + stall.duration] ELSE s
        limit == stall.afterBytes - s.stallSent
        inner == truncatedRead(body, truncate, waited,
                               IF waited.stalled THEN size ELSE Smaller(size, limit))
    IN  [inner EXCEPT !.state.stallSent = @ + inner.read]

(* The first Read starts the clock. *)
throttledRead(body, truncate, stall, bandwidth, s, size) ==
    LET inner == stalledRead(body, truncate, stall, s,
                             IF bandwidth.on THEN Smaller(size, bandwidth.chunk) ELSE size)
        sent == s.sent + inner.read
    IN  Got([inner.state EXCEPT !.sent = sent,
                                !.clock = IF bandwidth.on THEN Larger(@, sent) ELSE @],
            inner.read, inner.err)

(* The copy's log: what each Read left, until one fails or ends. *)
Reads(body, truncate, stall, bandwidth, size) ==
    LET most == 2 * body.length + 2
        log[n \in 0 .. most] ==
            IF n = 0 THEN <<Got(Wrap(body, truncate, stall), 0, "none")>>
            ELSE LET before == log[n - 1]
                     last == before[Len(before)]
                 IN  IF last.err # "none" THEN before
                     ELSE Append(before,
                                 throttledRead(body, truncate, stall, bandwidth, last.state, size))
    IN  log[most]

-------------------------------------------------------------------------------
(* The bytes a client gets before the end. *)
Delivered(body, truncate) ==
    IF Cuts(truncate) THEN (Counted(body) * truncate.at) \div 100 ELSE body.length

(* However the body is cut into reads: truncate delivers its share of the    *)
(* bytes and fails (truncate.go:61), a stall comes after its bytes and       *)
(* before the next one (README.md:337), bandwidth never lets the client be   *)
(* ahead of its rate, and the copy ends.  Rate and pause overlap: at the end *)
(* the client has waited for the slower one, not for both.                   *)
BodiesArriveAsConfigured(body, truncate, stall, bandwidth, size) ==
    LET log == Reads(body, truncate, stall, bandwidth, size)
        end == log[Len(log)]
        total == Delivered(body, truncate)
        AtRate(bytes) == IF bandwidth.on THEN bytes ELSE 0
        paused == IF stall.on /\ stall.afterBytes <= total
                  THEN AtRate(stall.afterBytes) + stall.duration ELSE 0
    IN  /\ end.state.sent = total
        /\ end.err = IF Cuts(truncate) THEN "truncated" ELSE "EOF"
        /\ \A i \in DOMAIN log :
               LET s == log[i].state
               IN  s.clock >= IF stall.on /\ s.sent > stall.afterBytes
                              THEN Larger(AtRate(s.sent), paused) ELSE AtRate(s.sent)
        /\ stall.on /\ 0 < stall.afterBytes /\ stall.afterBytes <= total =>
               \E i \in DOMAIN log : /\ log[i].state.sent = stall.afterBytes
                                     /\ log[i].state.clock = AtRate(stall.afterBytes)
        /\ end.state.clock <= Larger(AtRate(total), paused)
================================================================================
