------------------------------- MODULE EventBus -------------------------------
(***************************************************************************)
(* The event bus (internal/events/bus.go) and the handlers that stream it  *)
(* to dashboards (internal/control/sse.go).                                *)
(*                                                                         *)
(* Publish, Subscribe, Reset and unsubscribe hold the bus's mutex; the     *)
(* receive of a stream does not, so it interleaves with the channel        *)
(* operations of a Publish or a Reset that is under way.  "holder" is what *)
(* the goroutine that holds the mutex does; an operation without a channel *)
(* operation is one step.                                                  *)
(*                                                                         *)
(* An event is its ID; "epoch", the number of resets before it, is in the  *)
(* model only, to tell the events of different epochs apart.               *)
(***************************************************************************)
EXTENDS Integers, Sequences, FiniteSets

CONSTANTS
    Streams,             \* handlers of GET /api/events, with one subscription each
    HistoryCapacity,     \* 500 in the program
    SubscriberBuffer,    \* 128 in the program
    None,
    MaxEvents,           \* bound: events published between two resets
    MaxResets            \* bound: resets

ASSUME CapacityAssumption ==
    HistoryCapacity \in Nat \ {0} /\ SubscriberBuffer \in Nat \ {0}

ASSUME BoundsAssumption == MaxEvents \in Nat /\ MaxResets \in Nat

ASSUME NoneAssumption == None \notin Streams

VARIABLES
    holder,       \* what the holder of the mutex does
    history, historyNext, historySize, nextID, dropped,
    requests,     \* the tally's count of requests
    subscribers,
    events,       \* stream -> the channel of its subscription
    lost,         \* stream -> Subscription.dropped
    at,           \* stream -> where streamEvents is
    snapshot,     \* stream -> the history it is still to write
    stopping,     \* BeginShutdown was called
    (* History, read by the properties only. *)
    epoch,        \* resets so far
    written,      \* stream -> the events it received
    since         \* stream -> nextID when it subscribed, or 0 after a reset

ringVars == <<history, historyNext, historySize, nextID, requests, epoch>>
streamVars == <<at, snapshot, written>>
busVars == <<holder, ringVars, dropped, subscribers, events, lost,
             streamVars, stopping, since>>

Events == [epoch : Nat, id : Nat \ {0}]

Free == [kind |-> "none"]
Publishing(event, todo, target, step) ==
    [kind |-> "publish", event |-> event, todo |-> todo, target |-> target, step |-> step]
Resetting(todo) == [kind |-> "reset", todo |-> todo]

-------------------------------------------------------------------------------
(* The ring.                                                               *)

NoHistory == [i \in 0 .. HistoryCapacity - 1 |-> None]

historySnapshot ==
    LET start == (historyNext - historySize + HistoryCapacity) % HistoryCapacity
    IN  [i \in 1 .. historySize |-> history[(start + i - 1) % HistoryCapacity]]

appendHistory(event) ==
    /\ history' = [history EXCEPT ![historyNext] = event]
    /\ historyNext' = (historyNext + 1) % HistoryCapacity
    /\ historySize' = IF historySize < HistoryCapacity THEN historySize + 1 ELSE historySize

-------------------------------------------------------------------------------
Init ==
    /\ holder = Free
    /\ history = NoHistory
    /\ historyNext = 0
    /\ historySize = 0
    /\ nextID = 0
    /\ dropped = 0
    /\ requests = 0
    /\ subscribers = {}
    /\ events = [s \in Streams |-> <<>>]
    /\ lost = [s \in Streams |-> 0]
    /\ at = [s \in Streams |-> "off"]
    /\ snapshot = [s \in Streams |-> <<>>]
    /\ stopping = FALSE
    /\ epoch = 0
    /\ written = [s \in Streams |-> <<>>]
    /\ since = [s \in Streams |-> 0]

(* Publish.                                                                *)

Publish ==
    LET event == [epoch |-> epoch, id |-> nextID + 1]
    IN  /\ holder = Free
        /\ nextID < MaxEvents
        /\ nextID' = nextID + 1
        /\ requests' = requests + 1
        /\ appendHistory(event)
        /\ holder' = Publishing(event, subscribers, None, "offer")
        /\ UNCHANGED <<epoch, dropped, subscribers, events, lost, streamVars,
                       stopping, since>>

\* Mutant of Offer: the send waits for room.
OfferBlocks(s) ==
    /\ holder.kind = "publish" /\ holder.step = "offer" /\ s \in holder.todo
    /\ Len(events[s]) < SubscriberBuffer
    /\ events' = [events EXCEPT ![s] = Append(@, holder.event)]
    /\ holder' = Publishing(holder.event, holder.todo \ {s}, None, "offer")
    /\ UNCHANGED <<ringVars, dropped, subscribers, lost, streamVars, stopping, since>>

\* publishTo, its first select; the map is ranged over in any order.
Offer(s) ==
    /\ holder.kind = "publish" /\ holder.step = "offer" /\ s \in holder.todo
    /\ LET rest == holder.todo \ {s}
       IN  IF Len(events[s]) < SubscriberBuffer
           THEN /\ events' = [events EXCEPT ![s] = Append(@, holder.event)]
                /\ holder' = Publishing(holder.event, rest, None, "offer")
           ELSE /\ holder' = Publishing(holder.event, rest, s, "evict")
                /\ UNCHANGED events
    /\ UNCHANGED <<ringVars, dropped, subscribers, lost, streamVars, stopping, since>>

\* Mutant of Evict: nothing is taken out.
EvictNothing(s) ==
    /\ holder.kind = "publish" /\ holder.step = "evict" /\ holder.target = s
    /\ holder' = [holder EXCEPT !.step = "retry"]
    /\ UNCHANGED <<ringVars, dropped, subscribers, events, lost, streamVars, stopping, since>>

\* Its second select: the stream may have emptied the channel meanwhile.
Evict(s) ==
    /\ holder.kind = "publish" /\ holder.step = "evict" /\ holder.target = s
    /\ IF events[s] # <<>>
       THEN /\ events' = [events EXCEPT ![s] = Tail(@)]
            /\ holder' = [holder EXCEPT !.step = "retry_dropped"]
       ELSE /\ holder' = [holder EXCEPT !.step = "retry"]
            /\ UNCHANGED events
    /\ UNCHANGED <<ringVars, dropped, subscribers, lost, streamVars, stopping, since>>

\* Its third select, and the counters.
Retry(s) ==
    /\ holder.kind = "publish" /\ holder.target = s
    /\ holder.step \in {"retry", "retry_dropped"}
    /\ LET room == Len(events[s]) < SubscriberBuffer
           loss == holder.step = "retry_dropped" \/ ~room
       IN  /\ events' = IF room THEN [events EXCEPT ![s] = Append(@, holder.event)]
                                ELSE events
           /\ lost' = IF loss THEN [lost EXCEPT ![s] = @ + 1] ELSE lost
           /\ dropped' = IF loss THEN dropped + 1 ELSE dropped
    /\ holder' = Publishing(holder.event, holder.todo, None, "offer")
    /\ UNCHANGED <<ringVars, subscribers, streamVars, stopping, since>>

(* Reset.                                                                  *)

\* Mutant of Reset: the channels are not drained.
ResetWithoutDrain ==
    /\ holder = Free
    /\ epoch < MaxResets
    /\ history' = NoHistory
    /\ historyNext' = 0
    /\ historySize' = 0
    /\ nextID' = 0
    /\ dropped' = 0
    /\ requests' = 0
    /\ holder' = Resetting({})
    /\ epoch' = epoch + 1
    /\ since' = [s \in Streams |-> 0]
    /\ UNCHANGED <<subscribers, events, lost, streamVars, stopping>>

Reset ==
    /\ holder = Free
    /\ epoch < MaxResets
    /\ history' = NoHistory
    /\ historyNext' = 0
    /\ historySize' = 0
    /\ nextID' = 0
    /\ dropped' = 0
    /\ requests' = 0
    /\ holder' = Resetting(subscribers)
    /\ epoch' = epoch + 1
    /\ since' = [s \in Streams |-> 0]
    /\ UNCHANGED <<subscribers, events, lost, streamVars, stopping>>

\* Mutant of Drain: the subscription's count is not reset.
DrainKeepsLost(s) ==
    /\ holder.kind = "reset" /\ s \in holder.todo
    /\ IF events[s] # <<>>
       THEN /\ events' = [events EXCEPT ![s] = Tail(@)]
            /\ UNCHANGED holder
       ELSE /\ holder' = Resetting(holder.todo \ {s})
            /\ UNCHANGED events
    /\ UNCHANGED <<ringVars, dropped, subscribers, lost, streamVars, stopping, since>>

\* drain receives until nothing is left, then the subscription's count is reset.
Drain(s) ==
    /\ holder.kind = "reset" /\ s \in holder.todo
    /\ IF events[s] # <<>>
       THEN /\ events' = [events EXCEPT ![s] = Tail(@)]
            /\ UNCHANGED <<holder, lost>>
       ELSE /\ lost' = [lost EXCEPT ![s] = 0]
            /\ holder' = Resetting(holder.todo \ {s})
            /\ UNCHANGED events
    /\ UNCHANGED <<ringVars, dropped, subscribers, streamVars, stopping, since>>

\* The deferred Unlock of Publish and Reset.
Unlock ==
    /\ holder # Free
    /\ holder.todo = {}
    /\ holder.kind = "publish" => holder.step = "offer"
    /\ holder' = Free
    /\ UNCHANGED <<ringVars, dropped, subscribers, events, lost, streamVars,
                   stopping, since>>

HoldMutex == Unlock \/ \E s \in Streams : Offer(s) \/ Evict(s) \/ Retry(s) \/ Drain(s)

(* streamEvents.                                                           *)

Subscribe(s) ==
    /\ holder = Free
    /\ at[s] = "off"
    /\ subscribers' = subscribers \cup {s}
    /\ snapshot' = [snapshot EXCEPT ![s] = historySnapshot]
    /\ at' = [at EXCEPT ![s] = "replay"]
    /\ since' = [since EXCEPT ![s] = nextID]
    /\ UNCHANGED <<holder, ringVars, dropped, events, lost, written, stopping>>

\* The next event of the history, or the comment that ends it.
Replay(s) ==
    /\ at[s] = "replay"
    /\ IF snapshot[s] # <<>>
       THEN /\ snapshot' = [snapshot EXCEPT ![s] = Tail(@)]
            /\ written' = [written EXCEPT ![s] = Append(@, Head(snapshot[s]))]
            /\ UNCHANGED at
       ELSE /\ at' = [at EXCEPT ![s] = "live"]
            /\ UNCHANGED <<snapshot, written>>
    /\ UNCHANGED <<holder, ringVars, dropped, subscribers, events, lost, stopping, since>>

\* Mutant of Receive: live events are written while the history is.
ReceiveDuringReplay(s) ==
    /\ at[s] \in {"replay", "live"}
    /\ events[s] # <<>>
    /\ events' = [events EXCEPT ![s] = Tail(@)]
    /\ written' = [written EXCEPT ![s] = Append(@, Head(events[s]))]
    /\ UNCHANGED <<holder, ringVars, dropped, subscribers, lost, at, snapshot,
                   stopping, since>>

Receive(s) ==
    /\ at[s] = "live"
    /\ events[s] # <<>>
    /\ events' = [events EXCEPT ![s] = Tail(@)]
    /\ written' = [written EXCEPT ![s] = Append(@, Head(events[s]))]
    /\ UNCHANGED <<holder, ringVars, dropped, subscribers, lost, at, snapshot,
                   stopping, since>>

Leave(s) ==
    /\ at' = [at EXCEPT ![s] = "leaving"]
    /\ UNCHANGED <<holder, ringVars, dropped, subscribers, events, lost, snapshot,
                   written, stopping, since>>

\* A write fails, or the client is gone.
Disconnect(s) == at[s] \in {"replay", "live"} /\ Leave(s)

\* The select's case for stopping.
Stop(s) == at[s] = "live" /\ stopping /\ Leave(s)

\* Mutant of Close: the mutex is not taken.
CloseWithoutMutex(s) ==
    /\ at[s] = "leaving"
    /\ subscribers' = subscribers \ {s}
    /\ at' = [at EXCEPT ![s] = "off"]
    /\ events' = [events EXCEPT ![s] = <<>>]
    /\ lost' = [lost EXCEPT ![s] = 0]
    /\ snapshot' = [snapshot EXCEPT ![s] = <<>>]
    /\ written' = [written EXCEPT ![s] = <<>>]
    /\ since' = [since EXCEPT ![s] = 0]
    /\ UNCHANGED <<holder, ringVars, dropped, stopping>>

\* The deferred Close; what is left in the channel is garbage.
Close(s) ==
    /\ at[s] = "leaving"
    /\ holder = Free
    /\ subscribers' = subscribers \ {s}
    /\ at' = [at EXCEPT ![s] = "off"]
    /\ events' = [events EXCEPT ![s] = <<>>]
    /\ lost' = [lost EXCEPT ![s] = 0]
    /\ snapshot' = [snapshot EXCEPT ![s] = <<>>]
    /\ written' = [written EXCEPT ![s] = <<>>]
    /\ since' = [since EXCEPT ![s] = 0]
    /\ UNCHANGED <<holder, ringVars, dropped, stopping>>

BeginShutdown ==
    /\ ~stopping
    /\ stopping' = TRUE
    /\ UNCHANGED <<holder, ringVars, dropped, subscribers, events, lost, streamVars, since>>

Next ==
    \/ Publish
    \/ Reset
    \/ HoldMutex
    \/ BeginShutdown
    \/ \E s \in Streams :
          \/ Subscribe(s)
          \/ Replay(s)
          \/ Receive(s)
          \/ Disconnect(s)
          \/ Stop(s)
          \/ Close(s)

Spec == Init /\ [][Next]_busVars

-------------------------------------------------------------------------------
(* Properties.                                                             *)

Holders ==
    [kind : {"none"}]
      \cup [kind : {"publish"}, event : Events, todo : SUBSET Streams,
            target : Streams \cup {None}, step : {"offer", "evict", "retry", "retry_dropped"}]
      \cup [kind : {"reset"}, todo : SUBSET Streams]

\* Types; the ring's indexes and the channels stay within their capacities.
TypeOK ==
    /\ holder \in Holders
    /\ history \in [0 .. HistoryCapacity - 1 -> Events \cup {None}]
    /\ historyNext \in 0 .. HistoryCapacity - 1
    /\ historySize \in 0 .. HistoryCapacity
    /\ nextID \in Nat /\ dropped \in Nat /\ requests \in Nat /\ epoch \in Nat
    /\ subscribers \subseteq Streams
    /\ events \in [Streams -> Seq(Events)]
    /\ \A s \in Streams : Len(events[s]) <= SubscriberBuffer
    /\ lost \in [Streams -> Nat]
    /\ at \in [Streams -> {"off", "replay", "live", "leaving"}]
    /\ snapshot \in [Streams -> Seq(Events)]
    /\ stopping \in BOOLEAN
    /\ written \in [Streams -> Seq(Events)]
    /\ since \in [Streams -> Nat]

\* The subscriptions a Publish or a Reset still has to visit are registered, so
\* that their channels are open: a send to a closed channel would panic.
ChannelsInUseAreOpen ==
    /\ \A s \in Streams : s \in subscribers <=> at[s] # "off"
    /\ holder # Free => holder.todo \subseteq subscribers
    /\ holder.kind = "publish" => holder.target \in subscribers \cup {None}

\* After an eviction there is room for the event, whatever the stream does: the
\* mutex keeps other senders away, and the default case at bus.go:152 is dead.
EvictionMakesRoom ==
    \A s \in Streams :
        holder.kind = "publish" /\ holder.target = s /\ holder.step # "evict"
            => Len(events[s]) < SubscriberBuffer

\* No event is lost silently: of the events published since a stream
\* subscribed (or since the last reset), each was received, is in the channel,
\* or is counted by its dropped; and the bus's count is not below any stream's.
LossesAreCounted ==
    holder = Free =>
        /\ \A s \in subscribers :
              LET received == {i \in DOMAIN written[s] :
                                  /\ written[s][i].epoch = epoch
                                  /\ written[s][i].id > since[s]}
              IN  nextID - since[s] = Cardinality(received) + Len(events[s]) + lost[s]
        /\ \A s \in Streams : lost[s] <= dropped

\* A stream gets each event at most once and in the order of publication:
\* its history first, and nothing of before a reset after something of later.
StreamsAreOrdered ==
    \A s \in Streams :
        LET all == written[s] \o snapshot[s] \o events[s]
        IN  \A i, j \in DOMAIN all :
                i < j => \/ all[i].epoch < all[j].epoch
                         \/ all[i].epoch = all[j].epoch /\ all[i].id < all[j].id

\* The bus implements the feed clients are promised.  An event being published
\* is on its way to the subscriptions not yet visited.
InFlight(s) ==
    IF holder.kind = "publish" /\ s \in holder.todo \cup {holder.target}
    THEN <<holder.event>>
    ELSE <<>>

Overflowing ==
    IF holder.kind = "publish" /\ holder.step = "evict" THEN {holder.target} ELSE {}

Feed == INSTANCE EventFeed WITH
    published <- nextID,
    recent    <- historySnapshot,
    listening <- subscribers,
    replay    <- snapshot,
    live      <- [s \in Streams |-> events[s] \o InFlight(s)],
    overflow  <- Overflowing

ImplementsEventFeed == Feed!Spec

\* What the holder of the mutex has still to do, in steps at most: three for a
\* subscription that is full, one for each event a reset drains.
Work ==
    CASE holder.kind = "none" -> 0
      [] holder.kind = "publish" ->
            1 + 3 * Cardinality(holder.todo)
              + (CASE holder.step = "offer" -> 0 [] holder.step = "evict" -> 2 [] OTHER -> 1)
      [] holder.kind = "reset" ->
            1 + Cardinality({p \in holder.todo \X (0 .. SubscriberBuffer) : p[2] <= Len(events[p[1]])})

\* Publish and Reset "fan out without waiting for subscribers to consume"
\* (bus.go:31): the holder of the mutex always has a step it can take, each of
\* its steps leaves it less to do, and no step of a stream leaves it more.  So
\* the mutex is released, even if no stream ever reads.
MutexIsReleased ==
    /\ [](holder # Free => ENABLED HoldMutex)
    /\ [][holder # Free => Work' <= Work /\ (HoldMutex => Work' < Work)]_busVars

==============================================================================
