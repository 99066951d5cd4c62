------------------------------- MODULE EventFeed -------------------------------
(***************************************************************************)
(* What a client of GET /api/events is promised of the request events:     *)
(* the latest ones at once, then every later one in order, except that a   *)
(* client too slow for its buffer loses the oldest it has not received,    *)
(* and that a reset starts over (bus.go:31, 52, 73, 103).                  *)
(*                                                                         *)
(* Publishing reaches every listener in one step; there is no ring, no     *)
(* channel and no mutex.  EventBus, which models the code, implements      *)
(* this specification.                                                     *)
(***************************************************************************)
EXTENDS Integers, Sequences

CONSTANTS
    Streams,            \* clients
    HistoryCapacity,    \* how many past events a new listener gets
    SubscriberBuffer    \* how many later ones are kept for it

VARIABLES
    epoch,        \* resets so far
    published,    \* events of this epoch
    recent,       \* the latest of them
    listening,    \* the clients that listen
    replay,       \* client -> past events it is still to receive
    live,         \* client -> later events it is still to receive
    overflow      \* clients whose buffer the last event did not fit in

feedVars == <<epoch, published, recent, listening, replay, live, overflow>>

Stale(s) == live[s] # <<>> /\ Head(live[s]).epoch # epoch

KeepLast(n, q) == IF Len(q) <= n THEN q ELSE SubSeq(q, Len(q) - n + 1, Len(q))

Init ==
    /\ epoch = 0
    /\ published = 0
    /\ recent = <<>>
    /\ listening = {}
    /\ replay = [s \in Streams |-> <<>>]
    /\ live = [s \in Streams |-> <<>>]
    /\ overflow = {}

Publish ==
    LET event == [epoch |-> epoch, id |-> published + 1]
    IN  /\ overflow = {}
        /\ \A s \in listening : ~Stale(s)
        /\ published' = published + 1
        /\ recent' = KeepLast(HistoryCapacity, Append(recent, event))
        /\ live' = [s \in Streams |->
                       IF s \in listening THEN Append(live[s], event) ELSE live[s]]
        /\ UNCHANGED <<epoch, listening, replay, overflow>>

Overflow(s) ==
    /\ Len(live[s]) > SubscriberBuffer
    /\ overflow' = overflow \cup {s}
    /\ UNCHANGED <<epoch, published, recent, listening, replay, live>>

\* The client may have received some meanwhile; the oldest of the rest is lost.
Lose(s) ==
    /\ s \in overflow
    /\ live[s] # <<>>
    /\ overflow' = overflow \ {s}
    /\ live' = [live EXCEPT ![s] = Tail(@)]
    /\ UNCHANGED <<epoch, published, recent, listening, replay>>

CatchUp(s) ==
    /\ s \in overflow
    /\ overflow' = overflow \ {s}
    /\ UNCHANGED <<epoch, published, recent, listening, replay, live>>

Subscribe(s) ==
    /\ s \notin listening
    /\ listening' = listening \cup {s}
    /\ replay' = [replay EXCEPT ![s] = recent]
    /\ UNCHANGED <<epoch, published, recent, live, overflow>>

ReceivePast(s) ==
    /\ replay[s] # <<>>
    /\ replay' = [replay EXCEPT ![s] = Tail(@)]
    /\ UNCHANGED <<epoch, published, recent, listening, live, overflow>>

\* Later events wait until the past ones are received.
Receive(s) ==
    /\ replay[s] = <<>>
    /\ live[s] # <<>>
    /\ live' = [live EXCEPT ![s] = Tail(@)]
    /\ UNCHANGED <<epoch, published, recent, listening, replay, overflow>>

Close(s) ==
    /\ s \in listening \ overflow
    /\ listening' = listening \ {s}
    /\ replay' = [replay EXCEPT ![s] = <<>>]
    /\ live' = [live EXCEPT ![s] = <<>>]
    /\ UNCHANGED <<epoch, published, recent, overflow>>

Reset ==
    /\ epoch' = epoch + 1
    /\ published' = 0
    /\ recent' = <<>>
    /\ UNCHANGED <<listening, replay, live, overflow>>

\* What was buffered before a reset is dropped, unless it is received first.
Discard(s) ==
    /\ Stale(s)
    /\ live' = [live EXCEPT ![s] = Tail(@)]
    /\ UNCHANGED <<epoch, published, recent, listening, replay, overflow>>

Next ==
    \/ Publish
    \/ Reset
    \/ \E s \in Streams :
          \/ Overflow(s)
          \/ Lose(s)
          \/ CatchUp(s)
          \/ Subscribe(s)
          \/ ReceivePast(s)
          \/ Receive(s)
          \/ Close(s)
          \/ Discard(s)

Spec == Init /\ [][Next]_feedVars

==============================================================================
