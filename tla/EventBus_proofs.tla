---------------------------- MODULE EventBus_proofs ----------------------------
(***************************************************************************)
(* Proofs about EventBus, for any streams, capacities and bounds.          *)
(*                                                                         *)
(* The argument: the ring holds the latest events of the epoch in order    *)
(* (RingHoldsLatest); what a stream received, has still to write and has   *)
(* in its channel are in the order of publication, and before the event    *)
(* being published (OrderOfStreams, NothingIsAhead); a channel that is not *)
(* being drained holds events since its subscription only, so that each of *)
(* its receives counts (ChannelsAreCurrent, EveryEventCounts).             *)
(***************************************************************************)
EXTENDS EventBus, FiniteSetTheorems, SequenceTheorems, TLAPS

\* The order of publication.
Precedes(e, f) == e.epoch < f.epoch \/ (e.epoch = f.epoch /\ e.id < f.id)

Ordered(q) == \A i, j \in DOMAIN q : i < j => Precedes(q[i], q[j])
AllPrecede(p, q) == \A i \in DOMAIN p, j \in DOMAIN q : Precedes(p[i], q[j])

\* What the holder of the mutex is at.
HolderKnows ==
    /\ holder.kind = "publish" =>
          /\ holder.event = [epoch |-> epoch, id |-> nextID]
          /\ nextID > 0
          /\ holder.target \notin holder.todo
          /\ (holder.target = None) <=> (holder.step = "offer")
    /\ holder.kind = "reset" => nextID = 0

\* The ring's slot of the i-th of the historySize latest events.
Slot(i) ==
    IF historyNext - historySize + i - 1 < 0
    THEN historyNext - historySize + i - 1 + HistoryCapacity
    ELSE historyNext - historySize + i - 1

RingHoldsLatest ==
    /\ historySize <= nextID
    /\ \A i \in 1 .. historySize :
          history[Slot(i)] = [epoch |-> epoch, id |-> nextID - historySize + i]

IdleStreamsAreEmpty ==
    \A s \in Streams :
        /\ at[s] = "off" =>
              written[s] = <<>> /\ snapshot[s] = <<>> /\ events[s] = <<>> /\ lost[s] = 0
        /\ at[s] = "live" => snapshot[s] = <<>>

OrderOfStreams ==
    \A s \in Streams :
        /\ Ordered(written[s]) /\ Ordered(snapshot[s]) /\ Ordered(events[s])
        /\ AllPrecede(written[s], snapshot[s])
        /\ AllPrecede(written[s], events[s])
        /\ AllPrecede(snapshot[s], events[s])

\* The event after all that were offered to s.
Visiting(s) == holder.kind = "publish" /\ (s \in holder.todo \/ s = holder.target)
NextFor(s) == [epoch |-> epoch, id |-> IF Visiting(s) THEN nextID ELSE nextID + 1]

IsBefore(q, e) == \A i \in DOMAIN q : Precedes(q[i], e)

NothingIsAhead ==
    \A s \in Streams :
        /\ IsBefore(written[s], NextFor(s))
        /\ IsBefore(snapshot[s], NextFor(s))
        /\ IsBefore(events[s], NextFor(s))

\* A reset has still to empty the channel of s.
Draining(s) == holder.kind = "reset" /\ s \in holder.todo

Counts(s, e) == e.epoch = epoch /\ e.id > since[s]

ChannelsAreCurrent ==
    \A s \in Streams :
        /\ since[s] <= nextID
        /\ Visiting(s) => since[s] < nextID
        /\ ~Draining(s) => \A i \in DOMAIN events[s] : Counts(s, events[s][i])
        /\ \A i \in DOMAIN snapshot[s] : ~Counts(s, snapshot[s][i])

Received(s) == {i \in DOMAIN written[s] : Counts(s, written[s][i])}

\* Events of s that are neither received, in the channel, nor counted as lost yet:
\* the one being published, and the one evicted for it.
Pending(s) ==
    IF ~Visiting(s) THEN 0
    ELSE IF s = holder.target /\ holder.step = "retry_dropped" THEN 2 ELSE 1

EveryEventCounts ==
    \A s \in Streams :
        ~Draining(s) =>
            /\ s \in subscribers =>
                  nextID - since[s]
                      = Cardinality(Received(s)) + Len(events[s]) + lost[s] + Pending(s)
            /\ lost[s] <= dropped

IInv ==
    /\ TypeOK
    /\ ChannelsInUseAreOpen
    /\ EvictionMakesRoom
    /\ HolderKnows
    /\ RingHoldsLatest
    /\ IdleStreamsAreEmpty
    /\ OrderOfStreams
    /\ NothingIsAhead
    /\ ChannelsAreCurrent
    /\ EveryEventCounts

-------------------------------------------------------------------------------
(* Sequences of events and their order.                                    *)

\* An event at the end of a queue.
LEMMA AppendEvent ==
    ASSUME NEW q \in Seq(Events), NEW e \in Events
    PROVE  /\ Append(q, e) \in Seq(Events)
           /\ Len(Append(q, e)) = Len(q) + 1
           /\ DOMAIN Append(q, e) = DOMAIN q \cup {Len(q) + 1}
           /\ Len(q) + 1 \notin DOMAIN q
           /\ Append(q, e)[Len(q) + 1] = e
           /\ \A i \in DOMAIN q : Append(q, e)[i] = q[i]
  OBVIOUS

\* The queue without its first event.
LEMMA TailEvents ==
    ASSUME NEW q \in Seq(Events), q # <<>>
    PROVE  /\ Tail(q) \in Seq(Events)
           /\ Head(q) \in Events /\ Head(q) = q[1] /\ 1 \in DOMAIN q
           /\ Len(Tail(q)) = Len(q) - 1
           /\ \A i \in DOMAIN Tail(q) : /\ i + 1 \in DOMAIN q /\ 1 < i + 1
                                        /\ Tail(q)[i] = q[i + 1]
  OBVIOUS

\* The events of a queue.
LEMMA EventOfQueue ==
    ASSUME NEW q \in Seq(Events)
    PROVE  /\ Len(q) \in Nat /\ DOMAIN q = 1 .. Len(q)
           /\ \A i \in DOMAIN q : /\ i \in Nat /\ q[i] \in Events
                                  /\ q[i].epoch \in Nat /\ q[i].id \in Nat /\ q[i].id > 0
  <1>1. Len(q) \in Nat /\ DOMAIN q = 1 .. Len(q) /\ \A i \in DOMAIN q : i \in Nat /\ q[i] \in Events
    OBVIOUS
  <1>2. \A e \in Events : e.epoch \in Nat /\ e.id \in Nat /\ e.id > 0
    BY DEF Events
  <1>3. QED
    BY <1>1, <1>2

\* The order of publication is transitive.
LEMMA PrecedesTransitive ==
    ASSUME NEW e \in Events, NEW f \in Events, NEW g \in Events,
           Precedes(e, f), Precedes(f, g)
    PROVE  Precedes(e, g)
  BY DEF Precedes, Events

\* An event after those of a queue keeps it ordered, and what precedes the event
\* and the queue precedes both.
LEMMA AppendKeepsOrder ==
    ASSUME NEW q \in Seq(Events), NEW e \in Events
    PROVE  /\ Ordered(q) /\ IsBefore(q, e) => Ordered(Append(q, e))
           /\ \A f \in Events : IsBefore(q, f) /\ Precedes(e, f) => IsBefore(Append(q, e), f)
           /\ \A p \in Seq(Events) :
                 /\ AllPrecede(p, q) /\ IsBefore(p, e) => AllPrecede(p, Append(q, e))
                 /\ AllPrecede(q, p) /\ (\A j \in DOMAIN p : Precedes(e, p[j]))
                       => AllPrecede(Append(q, e), p)
  <1>1. Ordered(q) /\ IsBefore(q, e) => Ordered(Append(q, e))
    BY AppendEvent DEF Ordered, IsBefore
  <1>2. \A f \in Events : IsBefore(q, f) /\ Precedes(e, f) => IsBefore(Append(q, e), f)
    BY AppendEvent DEF IsBefore
  <1>3. \A p \in Seq(Events) :
           /\ AllPrecede(p, q) /\ IsBefore(p, e) => AllPrecede(p, Append(q, e))
           /\ AllPrecede(q, p) /\ (\A j \in DOMAIN p : Precedes(e, p[j]))
                 => AllPrecede(Append(q, e), p)
    BY AppendEvent DEF IsBefore, AllPrecede
  <1>4. QED
    BY <1>1, <1>2, <1>3

\* The queue without its first event is ordered as before, and its first event
\* precedes the others.
LEMMA TailKeepsOrder ==
    ASSUME NEW q \in Seq(Events), q # <<>>
    PROVE  /\ Ordered(q) => /\ Ordered(Tail(q))
                            /\ \A j \in DOMAIN Tail(q) : Precedes(Head(q), Tail(q)[j])
           /\ \A f : IsBefore(q, f) => IsBefore(Tail(q), f) /\ Precedes(Head(q), f)
           /\ \A p : /\ AllPrecede(p, q) => AllPrecede(p, Tail(q)) /\ IsBefore(p, Head(q))
                     /\ AllPrecede(q, p) => /\ AllPrecede(Tail(q), p)
                                            /\ \A j \in DOMAIN p : Precedes(Head(q), p[j])
  <1>1. Ordered(q) => /\ Ordered(Tail(q))
                      /\ \A j \in DOMAIN Tail(q) : Precedes(Head(q), Tail(q)[j])
    BY TailEvents DEF Ordered
  <1>2. \A f : IsBefore(q, f) => IsBefore(Tail(q), f) /\ Precedes(Head(q), f)
    BY TailEvents DEF IsBefore
  <1>3. \A p : /\ AllPrecede(p, q) => AllPrecede(p, Tail(q)) /\ IsBefore(p, Head(q))
               /\ AllPrecede(q, p) => /\ AllPrecede(Tail(q), p)
                                      /\ \A j \in DOMAIN p : Precedes(Head(q), p[j])
    BY TailEvents DEF IsBefore, AllPrecede
  <1>4. QED
    BY <1>1, <1>2, <1>3

\* The empty queue is in every order.
LEMMA EmptyIsOrdered ==
    ASSUME NEW p
    PROVE  /\ <<>> \in Seq(Events)
           /\ Ordered(<<>>) /\ IsBefore(<<>>, p) /\ AllPrecede(<<>>, p) /\ AllPrecede(p, <<>>)
  BY DEF Ordered, IsBefore, AllPrecede

-------------------------------------------------------------------------------
(* The ring.                                                               *)

\* The remainders the ring computes wrap at most once.
LEMMA WrapsOnce ==
    \A c \in Nat \ {0} : \A x \in Nat :
        x < 2 * c => x % c = IF x < c THEN x ELSE x - c
  OBVIOUS

\* The snapshot lists the slots of the latest events.
LEMMA SnapshotOfSlots ==
    ASSUME TypeOK
    PROVE  historySnapshot = [i \in 1 .. historySize |-> history[Slot(i)]]
  <1> DEFINE start == (historyNext - historySize + HistoryCapacity) % HistoryCapacity
  <1>1. /\ HistoryCapacity \in Nat \ {0}
        /\ historyNext \in 0 .. HistoryCapacity - 1 /\ historySize \in 0 .. HistoryCapacity
    BY CapacityAssumption DEF TypeOK
  <1>2. start = IF historyNext - historySize < 0
                THEN historyNext - historySize + HistoryCapacity
                ELSE historyNext - historySize
    <2> DEFINE x == historyNext - historySize + HistoryCapacity
    <2>1. x \in Nat /\ x < 2 * HistoryCapacity
      BY <1>1
    <2> HIDE DEF x
    <2>2. x % HistoryCapacity = IF x < HistoryCapacity THEN x ELSE x - HistoryCapacity
      BY <1>1, <2>1, WrapsOnce
    <2> USE DEF x
    <2>3. QED
      BY <1>1, <2>2
  <1>3. ASSUME NEW i \in 1 .. historySize
        PROVE  (start + i - 1) % HistoryCapacity = Slot(i)
    <2> HIDE DEF start
    <2> DEFINE x == start + i - 1
    <2>1. x \in Nat /\ x < 2 * HistoryCapacity
      BY <1>1, <1>2
    <2> HIDE DEF x
    <2>2. x % HistoryCapacity = IF x < HistoryCapacity THEN x ELSE x - HistoryCapacity
      BY <1>1, <2>1, WrapsOnce
    <2> USE DEF x
    <2>3. QED
      BY <1>1, <1>2, <2>2 DEF Slot
  <1>4. QED
    BY <1>3 DEF historySnapshot

\* An event that is published is the last of the ring's latest events.
LEMMA AppendHistory ==
    ASSUME TypeOK, RingHoldsLatest, Publish
    PROVE  /\ historyNext' \in 0 .. HistoryCapacity - 1
           /\ historySize' \in 0 .. HistoryCapacity
           /\ history' \in [0 .. HistoryCapacity - 1 -> Events \cup {None}]
           /\ RingHoldsLatest'
  <1>1. /\ HistoryCapacity \in Nat \ {0}
        /\ historyNext \in 0 .. HistoryCapacity - 1 /\ historySize \in 0 .. HistoryCapacity
        /\ history \in [0 .. HistoryCapacity - 1 -> Events \cup {None}]
        /\ nextID \in Nat /\ epoch \in Nat
    BY CapacityAssumption DEF TypeOK
  <1> DEFINE event == [epoch |-> epoch, id |-> nextID + 1]
  <1>2. /\ history' = [history EXCEPT ![historyNext] = event]
        /\ historySize' = IF historySize < HistoryCapacity THEN historySize + 1 ELSE historySize
        /\ nextID' = nextID + 1 /\ epoch' = epoch
        /\ event \in Events
    BY <1>1 DEF Publish, appendHistory, Events
  <1>3. historyNext' = IF historyNext + 1 < HistoryCapacity THEN historyNext + 1 ELSE 0
    <2> DEFINE x == historyNext + 1
    <2>1. x \in Nat /\ x < 2 * HistoryCapacity
      BY <1>1
    <2> HIDE DEF x
    <2>2. x % HistoryCapacity = IF x < HistoryCapacity THEN x ELSE x - HistoryCapacity
      BY <1>1, <2>1, WrapsOnce
    <2> USE DEF x
    <2>3. QED
      BY <1>1, <2>2 DEF Publish, appendHistory
  <1>4. historySize' <= nextID'
    BY <1>1, <1>2 DEF RingHoldsLatest
  <1>5. ASSUME NEW i \in 1 .. historySize'
        PROVE  history'[Slot(i)'] = [epoch |-> epoch', id |-> nextID' - historySize' + i]
    <2>1. CASE i = historySize'
      <3>1. Slot(i)' = historyNext
        BY <1>1, <1>2, <1>3, <2>1 DEF Slot
      <3>2. QED
        BY <1>1, <1>2, <2>1, <3>1
    <2>2. CASE i < historySize'
      <3> DEFINE j == IF historySize < HistoryCapacity THEN i ELSE i + 1
      <3>1. j \in 1 .. historySize
        BY <1>1, <1>2, <2>2
      <3>2. Slot(i)' = Slot(j) /\ Slot(j) \in 0 .. HistoryCapacity - 1 /\ Slot(j) # historyNext
        BY <1>1, <1>2, <1>3, <2>2 DEF Slot
      <3>3. history'[Slot(i)'] = history[Slot(j)]
        BY <1>1, <1>2, <3>2
      <3>4. nextID' - historySize' + i = nextID - historySize + j
        BY <1>1, <1>2
      <3>5. QED
        BY <1>2, <3>1, <3>3, <3>4 DEF RingHoldsLatest
    <2>3. QED
      BY <1>1, <1>2, <2>1, <2>2
  <1>6. RingHoldsLatest'
    BY <1>4, <1>5 DEF RingHoldsLatest
  <1>7. QED
    BY <1>1, <1>2, <1>3, <1>6

\* What a new stream gets: the latest events of the epoch, in order.
LEMMA SnapshotIsLatest ==
    ASSUME TypeOK, RingHoldsLatest
    PROVE  /\ historySnapshot =
                 [i \in 1 .. historySize |-> [epoch |-> epoch, id |-> nextID - historySize + i]]
           /\ historySnapshot \in Seq(Events)
           /\ Ordered(historySnapshot)
           /\ \A i \in DOMAIN historySnapshot : /\ historySnapshot[i].epoch = epoch
                                                /\ historySnapshot[i].id <= nextID
  <1>1. /\ historySize \in Nat /\ historySize <= nextID /\ nextID \in Nat /\ epoch \in Nat
    BY CapacityAssumption DEF TypeOK, RingHoldsLatest
  <1>2. historySnapshot =
           [i \in 1 .. historySize |-> [epoch |-> epoch, id |-> nextID - historySize + i]]
    BY SnapshotOfSlots DEF RingHoldsLatest
  <1> HIDE DEF historySnapshot
  <1>3. \A i \in 1 .. historySize : [epoch |-> epoch, id |-> nextID - historySize + i] \in Events
    BY <1>1 DEF Events
  <1>4. historySnapshot \in Seq(Events)
    <2>1. historySnapshot \in [1 .. historySize -> Events]
      BY <1>2, <1>3
    <2>2. QED
      BY <1>1, <2>1, SeqDef
  <1>5. Ordered(historySnapshot)
    BY <1>1, <1>2 DEF Ordered, Precedes
  <1>6. \A i \in DOMAIN historySnapshot : /\ historySnapshot[i].epoch = epoch
                                          /\ historySnapshot[i].id <= nextID
    BY <1>1, <1>2
  <1>7. QED
    BY <1>2, <1>4, <1>5, <1>6

-------------------------------------------------------------------------------
(* The inductive invariant: one lemma for each action.                     *)

\* What the holder of the mutex may be.
LEMMA HolderCases ==
    ASSUME TypeOK
    PROVE  /\ holder.kind \in {"none", "publish", "reset"}
           /\ holder.kind = "none" <=> holder = Free
           /\ holder # Free => holder.todo \in SUBSET Streams
           /\ holder.kind = "publish" =>
                 /\ holder.event \in Events
                 /\ holder.target \in Streams \cup {None}
                 /\ holder.step \in {"offer", "evict", "retry", "retry_dropped"}
  BY DEF TypeOK, Holders, Free

\* The initial state.
LEMMA InitIInv == Init => IInv
  <1> SUFFICES ASSUME Init PROVE IInv
    OBVIOUS
  <1> USE DEF Init, Free
  <1>1. TypeOK
    <2>1. /\ holder \in Holders /\ <<>> \in Seq(Events) /\ Len(<<>>) = 0
          /\ HistoryCapacity \in Nat \ {0} /\ SubscriberBuffer \in Nat \ {0}
      BY CapacityAssumption, EmptyIsOrdered DEF Holders
    <2>2. history \in [0 .. HistoryCapacity - 1 -> Events \cup {None}]
      BY DEF NoHistory
    <2>3. QED
      BY <2>1, <2>2 DEF TypeOK
  <1>2. ChannelsInUseAreOpen /\ EvictionMakesRoom /\ HolderKnows /\ IdleStreamsAreEmpty
    BY DEF ChannelsInUseAreOpen, EvictionMakesRoom, HolderKnows, IdleStreamsAreEmpty
  <1>3. RingHoldsLatest
    BY DEF RingHoldsLatest
  <1>4. OrderOfStreams /\ NothingIsAhead
    BY EmptyIsOrdered DEF OrderOfStreams, NothingIsAhead
  <1>5. ChannelsAreCurrent
    BY DEF ChannelsAreCurrent, Visiting
  <1>6. EveryEventCounts
    BY DEF EveryEventCounts
  <1>7. QED
    BY <1>1, <1>2, <1>3, <1>4, <1>5, <1>6 DEF IInv

\* A step that changes nothing of the bus but the flag of the shutdown.
LEMMA BeginShutdownKeepsIInv ==
    ASSUME IInv, BeginShutdown \/ UNCHANGED busVars
    PROVE  IInv'
  <1> USE DEF IInv, BeginShutdown, busVars, ringVars, streamVars
  <1>1. TypeOK'
    BY DEF TypeOK
  <1>2. ChannelsInUseAreOpen' /\ EvictionMakesRoom' /\ HolderKnows' /\ IdleStreamsAreEmpty'
    BY DEF ChannelsInUseAreOpen, EvictionMakesRoom, HolderKnows, IdleStreamsAreEmpty
  <1>3. RingHoldsLatest'
    BY DEF RingHoldsLatest, Slot
  <1>4. OrderOfStreams' /\ NothingIsAhead'
    BY DEF OrderOfStreams, NothingIsAhead, NextFor, Visiting
  <1>5. ChannelsAreCurrent'
    BY DEF ChannelsAreCurrent, Visiting, Draining, Counts
  <1>6. EveryEventCounts'
    BY DEF EveryEventCounts, Draining, Pending, Visiting, Received, Counts
  <1>7. QED
    BY <1>1, <1>2, <1>3, <1>4, <1>5, <1>6

\* The mutex is released when every subscription was visited.
LEMMA UnlockKeepsIInv ==
    ASSUME IInv, Unlock
    PROVE  IInv'
  <1> USE DEF IInv, Unlock, ringVars, streamVars
  <1>1. TypeOK'
    BY DEF TypeOK, Free, Holders
  <1>2. /\ holder'.kind = "none" /\ holder' = Free /\ Free.kind = "none"
        /\ \A s \in Streams : ~Visiting(s) /\ ~Draining(s) /\ ~Visiting(s)' /\ ~Draining(s)'
    BY HolderCases, NoneAssumption DEF Free, Visiting, Draining, HolderKnows
  <1>3. ChannelsInUseAreOpen' /\ EvictionMakesRoom' /\ HolderKnows' /\ IdleStreamsAreEmpty'
    BY <1>2 DEF ChannelsInUseAreOpen, EvictionMakesRoom, HolderKnows, IdleStreamsAreEmpty
  <1>4. RingHoldsLatest'
    BY DEF RingHoldsLatest, Slot
  <1>5. OrderOfStreams' /\ NothingIsAhead'
    BY <1>2 DEF OrderOfStreams, NothingIsAhead, NextFor
  <1>6. ChannelsAreCurrent'
    BY <1>2 DEF ChannelsAreCurrent, Counts
  <1>7. EveryEventCounts'
    BY <1>2 DEF EveryEventCounts, Pending, Received, Counts
  <1>8. QED
    BY <1>1, <1>3, <1>4, <1>5, <1>6, <1>7

\* A stream that ends keeps its subscription until Close.
LEMMA LeaveKeepsIInv ==
    ASSUME IInv, NEW s \in Streams, Disconnect(s) \/ Stop(s)
    PROVE  IInv'
  <1> USE DEF IInv, ringVars
  <1>1. /\ at[s] \in {"replay", "live"} /\ at' = [at EXCEPT ![s] = "leaving"]
        /\ UNCHANGED <<holder, ringVars, dropped, subscribers, events, lost, snapshot,
                       written, stopping, since>>
    BY DEF Disconnect, Stop, Leave
  <1>2. TypeOK'
    BY <1>1 DEF TypeOK
  <1>3. ChannelsInUseAreOpen' /\ EvictionMakesRoom' /\ HolderKnows' /\ IdleStreamsAreEmpty'
    BY <1>1 DEF ChannelsInUseAreOpen, EvictionMakesRoom, HolderKnows, IdleStreamsAreEmpty, TypeOK
  <1>4. RingHoldsLatest'
    BY <1>1 DEF RingHoldsLatest, Slot
  <1>5. OrderOfStreams' /\ NothingIsAhead'
    BY <1>1 DEF OrderOfStreams, NothingIsAhead, NextFor, Visiting
  <1>6. ChannelsAreCurrent'
    BY <1>1 DEF ChannelsAreCurrent, Visiting, Draining, Counts
  <1>7. EveryEventCounts'
    BY <1>1 DEF EveryEventCounts, Draining, Pending, Visiting, Received, Counts
  <1>8. QED
    BY <1>2, <1>3, <1>4, <1>5, <1>6, <1>7

\* A subscription is closed while no one holds the mutex.
LEMMA CloseKeepsIInv ==
    ASSUME IInv, NEW s \in Streams, Close(s)
    PROVE  IInv'
  <1> USE DEF IInv, Close, ringVars
  <1>1. /\ holder.kind = "none" /\ holder'.kind = "none" /\ holder' = holder
        /\ \A t \in Streams : ~Visiting(t) /\ ~Draining(t) /\ ~Visiting(t)' /\ ~Draining(t)'
    BY DEF Free, Visiting, Draining
  <1>2. TypeOK'
    <2>1. <<>> \in Seq(Events) /\ Len(<<>>) = 0 /\ SubscriberBuffer \in Nat
      BY EmptyIsOrdered, CapacityAssumption
    <2>2. QED
      BY <2>1 DEF TypeOK
  <1>3. ChannelsInUseAreOpen' /\ EvictionMakesRoom' /\ HolderKnows' /\ IdleStreamsAreEmpty'
    BY <1>1 DEF ChannelsInUseAreOpen, EvictionMakesRoom, HolderKnows, IdleStreamsAreEmpty, TypeOK
  <1>4. RingHoldsLatest'
    BY DEF RingHoldsLatest, Slot
  <1>5. OrderOfStreams' /\ NothingIsAhead'
    BY <1>1, EmptyIsOrdered DEF OrderOfStreams, NothingIsAhead, NextFor, TypeOK
  <1>6. ChannelsAreCurrent'
    BY <1>1 DEF ChannelsAreCurrent, Counts, TypeOK
  <1>7. EveryEventCounts'
    <2>1. \A t \in Streams \ {s} : Received(t)' = Received(t)
      BY DEF Received, Counts, TypeOK
    <2>2. /\ lost'[s] = 0 /\ dropped' = dropped /\ dropped \in Nat
          /\ subscribers' = subscribers \ {s} /\ nextID' = nextID
          /\ \A t \in Streams \ {s} :
                lost'[t] = lost[t] /\ events'[t] = events[t] /\ since'[t] = since[t]
      BY DEF TypeOK
    <2>3. QED
      BY <1>1, <2>1, <2>2 DEF EveryEventCounts, Pending
  <1>8. QED
    BY <1>2, <1>3, <1>4, <1>5, <1>6, <1>7

\* A new stream gets the latest events, none of which it will count.
LEMMA SubscribeKeepsIInv ==
    ASSUME IInv, NEW s \in Streams, Subscribe(s)
    PROVE  IInv'
  <1> USE DEF IInv, Subscribe, ringVars
  <1>1. /\ holder.kind = "none" /\ holder'.kind = "none" /\ holder' = holder
        /\ \A t \in Streams : ~Visiting(t) /\ ~Draining(t) /\ ~Visiting(t)' /\ ~Draining(t)'
    BY DEF Free, Visiting, Draining
  <1>2. /\ historySnapshot \in Seq(Events) /\ Ordered(historySnapshot)
        /\ \A i \in DOMAIN historySnapshot : /\ historySnapshot[i].epoch = epoch
                                             /\ historySnapshot[i].id <= nextID
        /\ \A i \in DOMAIN historySnapshot : /\ historySnapshot[i] \in Events
                                             /\ historySnapshot[i].id \in Nat
    BY SnapshotIsLatest, EventOfQueue
  <1>3. /\ written[s] = <<>> /\ events[s] = <<>> /\ lost[s] = 0
        /\ snapshot'[s] = historySnapshot /\ since'[s] = nextID
    BY DEF IdleStreamsAreEmpty, TypeOK
  <1> HIDE DEF historySnapshot
  <1>4. TypeOK'
    BY <1>2 DEF TypeOK
  <1>5. ChannelsInUseAreOpen' /\ EvictionMakesRoom' /\ HolderKnows' /\ IdleStreamsAreEmpty'
    BY <1>1 DEF ChannelsInUseAreOpen, EvictionMakesRoom, HolderKnows, IdleStreamsAreEmpty, TypeOK
  <1>6. RingHoldsLatest'
    BY DEF RingHoldsLatest, Slot
  <1>7. OrderOfStreams'
    BY <1>2, <1>3, EmptyIsOrdered DEF OrderOfStreams, TypeOK
  <1>8. NothingIsAhead'
    <2>1. \A i \in DOMAIN historySnapshot : Precedes(historySnapshot[i], NextFor(s))
      BY <1>1, <1>2 DEF Precedes, NextFor, TypeOK, Events
    <2>2. QED
      BY <1>1, <2>1 DEF NothingIsAhead, NextFor, IsBefore, TypeOK
  <1>9. ChannelsAreCurrent'
    <2>1. /\ events'[s] = <<>> /\ nextID' = nextID /\ nextID \in Nat /\ epoch' = epoch
          /\ \A t \in Streams \ {s} :
                events'[t] = events[t] /\ snapshot'[t] = snapshot[t] /\ since'[t] = since[t]
      BY <1>3 DEF TypeOK
    <2>2. \A i \in DOMAIN historySnapshot : ~(historySnapshot[i].id > since'[s])
      BY <1>2, <1>3, <2>1
    <2>3. /\ since'[s] <= nextID' /\ DOMAIN events'[s] = {}
          /\ \A i \in DOMAIN snapshot'[s] : ~Counts(s, snapshot[s][i])'
      BY <1>3, <2>1, <2>2 DEF Counts
    <2>4. \A t \in Streams \ {s} :
             /\ since'[t] <= nextID'
             /\ \A i \in DOMAIN events'[t] : Counts(t, events[t][i])'
             /\ \A i \in DOMAIN snapshot'[t] : ~Counts(t, snapshot[t][i])'
      BY <1>1, <2>1 DEF ChannelsAreCurrent, Counts
    <2>5. QED
      BY <1>1, <2>3, <2>4 DEF ChannelsAreCurrent
  <1>10. EveryEventCounts'
    <2>1. Received(s)' = {}
      BY <1>3 DEF Received
    <2>2. \A t \in Streams \ {s} : Received(t)' = Received(t) /\ since'[t] = since[t]
      BY DEF Received, Counts, TypeOK
    <2>3. /\ dropped' = dropped /\ dropped \in Nat /\ nextID' = nextID /\ nextID \in Nat
          /\ Len(<<>>) = 0 /\ events' = events /\ lost' = lost
          /\ subscribers' = subscribers \cup {s}
      BY DEF TypeOK
    <2>4. nextID - since'[s] = Cardinality(Received(s)') + Len(events'[s]) + lost'[s]
      BY <1>3, <2>1, <2>3, FS_EmptySet
    <2>5. \A t \in Streams : Pending(t)' = 0 /\ Pending(t) = 0
      BY <1>1 DEF Pending
    <2>6. QED
      BY <1>1, <1>3, <2>2, <2>3, <2>4, <2>5 DEF EveryEventCounts
  <1>11. QED
    BY <1>4, <1>5, <1>6, <1>7, <1>8, <1>9, <1>10

\* The next event of a stream is an event of this epoch.
LEMMA NextIsEvent ==
    ASSUME TypeOK, HolderKnows, NEW s \in Streams
    PROVE  NextFor(s) \in Events /\ NextFor(s).epoch = epoch
  BY DEF TypeOK, HolderKnows, NextFor, Visiting, Events

\* What is before an event is before each later one.
LEMMA BeforeLater ==
    ASSUME NEW q \in Seq(Events), NEW e \in Events, NEW f \in Events,
           IsBefore(q, e), e = f \/ Precedes(e, f)
    PROVE  IsBefore(q, f)
  BY PrecedesTransitive, EventOfQueue DEF IsBefore

\* The events a stream received that count are finitely many.
LEMMA ReceivedIsFinite ==
    ASSUME TypeOK, NEW s \in Streams
    PROVE  IsFiniteSet(Received(s)) /\ Cardinality(Received(s)) \in Nat
  <1>1. Received(s) \subseteq 1 .. Len(written[s]) /\ Len(written[s]) \in Nat
    BY EventOfQueue DEF Received, TypeOK
  <1>2. IsFiniteSet(1 .. Len(written[s]))
    BY <1>1, FS_Interval
  <1>3. IsFiniteSet(Received(s))
    BY <1>1, <1>2, FS_Subset
  <1>4. QED
    BY <1>3, FS_CardinalityType

\* An event a stream receives is one more of them, if it counts.
LEMMA ReceivedGrows ==
    ASSUME TypeOK, NEW s \in Streams, NEW e \in Events,
           written'[s] = Append(written[s], e), epoch' = epoch, since' = since
    PROVE  Cardinality(Received(s)') = Cardinality(Received(s)) + (IF Counts(s, e) THEN 1 ELSE 0)
  <1> DEFINE n == Len(written[s]) + 1
  <1>1. /\ written[s] \in Seq(Events)
        /\ DOMAIN written'[s] = DOMAIN written[s] \cup {n} /\ n \notin DOMAIN written[s]
        /\ written'[s][n] = e /\ \A i \in DOMAIN written[s] : written'[s][i] = written[s][i]
    BY AppendEvent DEF TypeOK
  <1> HIDE DEF n
  <1>2. /\ n \notin Received(s)
        /\ Received(s)' = IF Counts(s, e) THEN Received(s) \cup {n} ELSE Received(s)
    BY <1>1 DEF Received, Counts
  <1>3. IsFiniteSet(Received(s)) /\ Cardinality(Received(s)) \in Nat
    BY ReceivedIsFinite
  <1>4. Cardinality(Received(s) \cup {n}) = Cardinality(Received(s)) + 1
    BY <1>2, <1>3, FS_AddElement
  <1>5. QED
    BY <1>2, <1>3, <1>4

\* An event is published: it is on its way to every subscription.
LEMMA PublishKeepsIInv ==
    ASSUME IInv, Publish
    PROVE  IInv'
  <1> USE DEF IInv, ringVars, streamVars
  <1> DEFINE event == [epoch |-> epoch, id |-> nextID + 1]
  <1>1. /\ holder = Free /\ holder' = Publishing(event, subscribers, None, "offer")
        /\ nextID' = nextID + 1 /\ requests' = requests + 1
        /\ UNCHANGED <<epoch, dropped, subscribers, events, lost, at, snapshot, written,
                       stopping, since>>
    BY DEF Publish
  <1>2. /\ nextID \in Nat /\ epoch \in Nat /\ event \in Events
        /\ subscribers \subseteq Streams /\ None \notin subscribers
        /\ since \in [Streams -> Nat]
    BY NoneAssumption DEF TypeOK, Events
  <1>3. /\ holder'.kind = "publish" /\ holder'.event = event /\ holder'.todo = subscribers
        /\ holder'.target = None /\ holder'.step = "offer"
        /\ holder.kind = "none" /\ holder' # Free
    BY <1>1 DEF Free, Publishing
  <1>4. /\ \A t \in Streams : ~Visiting(t) /\ ~Draining(t) /\ ~Draining(t)'
        /\ \A t \in Streams : Visiting(t)' <=> t \in subscribers
    BY <1>2, <1>3, NoneAssumption DEF Visiting, Draining
  <1>5. TypeOK' /\ RingHoldsLatest'
    <2>1. holder' \in Holders
      BY <1>1, <1>2 DEF Publishing, Holders
    <2>2. QED
      BY <1>1, <2>1, AppendHistory DEF TypeOK
  <1>6. ChannelsInUseAreOpen' /\ EvictionMakesRoom' /\ HolderKnows' /\ IdleStreamsAreEmpty'
    BY <1>1, <1>2, <1>3, NoneAssumption
       DEF ChannelsInUseAreOpen, EvictionMakesRoom, HolderKnows, IdleStreamsAreEmpty
  <1>7. OrderOfStreams'
    BY <1>1 DEF OrderOfStreams
  <1>8. NothingIsAhead'
    <2> SUFFICES ASSUME NEW t \in Streams
                 PROVE  /\ IsBefore(written[t], NextFor(t)')
                        /\ IsBefore(snapshot[t], NextFor(t)')
                        /\ IsBefore(events[t], NextFor(t)')
      BY <1>1 DEF NothingIsAhead, IsBefore
    <2>1. NextFor(t) = event /\ (NextFor(t)' = event \/ NextFor(t)' = [event EXCEPT !.id = @ + 1])
      BY <1>1, <1>2, <1>4 DEF NextFor
    <2>2. NextFor(t)' \in Events /\ (NextFor(t) = NextFor(t)' \/ Precedes(NextFor(t), NextFor(t)'))
      BY <1>2, <2>1 DEF Precedes, Events
    <2>3. QED
      BY <1>2, <2>1, <2>2, BeforeLater DEF NothingIsAhead, TypeOK
  <1>9. ChannelsAreCurrent'
    BY <1>1, <1>2, <1>4 DEF ChannelsAreCurrent, Counts
  <1>10. EveryEventCounts'
    <2>1. \A t \in Streams : Received(t)' = Received(t)
      BY <1>1 DEF Received, Counts
    <2>2. \A t \in Streams : /\ Pending(t) = 0
                             /\ t \in subscribers => Pending(t)' = 1
      BY <1>3, <1>4, NoneAssumption DEF Pending
    <2>3. \A t \in subscribers :
             nextID - since[t] = Cardinality(Received(t)) + Len(events[t]) + lost[t]
      <3>1. \A t \in Streams : /\ Cardinality(Received(t)) \in Nat /\ lost[t] \in Nat
                               /\ Len(events[t]) \in Nat
        BY ReceivedIsFinite, EventOfQueue DEF TypeOK
      <3>2. QED
        BY <1>2, <1>4, <2>2, <3>1 DEF EveryEventCounts
    <2>4. QED
      BY <1>1, <1>2, <1>4, <2>1, <2>2, <2>3 DEF EveryEventCounts
  <1>11. QED
    BY <1>5, <1>6, <1>7, <1>8, <1>9, <1>10

\* A reset: every registered channel is still to be drained, and what is left in
\* one is of an earlier epoch.
LEMMA ResetKeepsIInv ==
    ASSUME IInv, Reset
    PROVE  IInv'
  <1> USE DEF IInv, streamVars
  <1>1. /\ holder = Free /\ holder' = Resetting(subscribers)
        /\ nextID' = 0 /\ historySize' = 0 /\ historyNext' = 0 /\ history' = NoHistory
        /\ dropped' = 0 /\ requests' = 0 /\ epoch' = epoch + 1
        /\ since' = [t \in Streams |-> 0]
        /\ UNCHANGED <<subscribers, events, lost, at, snapshot, written, stopping>>
    BY DEF Reset
  <1>2. /\ epoch \in Nat /\ nextID \in Nat /\ subscribers \subseteq Streams
        /\ HistoryCapacity \in Nat \ {0}
    BY CapacityAssumption DEF TypeOK
  <1>3. /\ holder'.kind = "reset" /\ holder'.todo = subscribers /\ holder' # Free
        /\ holder.kind = "none"
    BY <1>1 DEF Free, Resetting
  <1>4. /\ \A t \in Streams : ~Visiting(t) /\ ~Draining(t) /\ ~Visiting(t)'
        /\ \A t \in Streams : Draining(t)' <=> t \in subscribers
        /\ \A t \in Streams : t \notin subscribers =>
              written[t] = <<>> /\ snapshot[t] = <<>> /\ events[t] = <<>> /\ lost[t] = 0
    BY <1>3 DEF Visiting, Draining, ChannelsInUseAreOpen, IdleStreamsAreEmpty
  <1>5. TypeOK'
    <2>1. holder' \in Holders /\ history' \in [0 .. HistoryCapacity - 1 -> Events \cup {None}]
      BY <1>1, <1>2 DEF Resetting, Holders, NoHistory
    <2>2. QED
      BY <1>1, <1>2, <2>1 DEF TypeOK
  <1>6. ChannelsInUseAreOpen' /\ EvictionMakesRoom' /\ HolderKnows' /\ IdleStreamsAreEmpty'
    BY <1>1, <1>3 DEF ChannelsInUseAreOpen, EvictionMakesRoom, HolderKnows, IdleStreamsAreEmpty
  <1>7. RingHoldsLatest' /\ OrderOfStreams'
    BY <1>1 DEF OrderOfStreams, RingHoldsLatest
  <1>8. \A t \in Streams, e \in Events :
           Precedes(e, NextFor(t)) => e.epoch <= epoch /\ Precedes(e, NextFor(t)')
    BY <1>1, <1>2, <1>4 DEF NextFor, Precedes, Events
  <1>9. \A t \in Streams :
           /\ written[t] \in Seq(Events) /\ \A i \in DOMAIN written[t] : written[t][i] \in Events
           /\ snapshot[t] \in Seq(Events) /\ \A i \in DOMAIN snapshot[t] : snapshot[t][i] \in Events
           /\ events[t] \in Seq(Events) /\ \A i \in DOMAIN events[t] : events[t][i] \in Events
    BY EventOfQueue DEF TypeOK
  <1>10. NothingIsAhead'
    BY <1>1, <1>8, <1>9 DEF NothingIsAhead, IsBefore
  <1>11. ChannelsAreCurrent'
    <2>1. \A t \in Streams : \A i \in DOMAIN snapshot[t] : snapshot[t][i].epoch <= epoch
      BY <1>8, <1>9 DEF NothingIsAhead, IsBefore
    <2>2. \A t \in Streams : \A i \in DOMAIN snapshot[t] : ~(snapshot[t][i].epoch = epoch + 1)
      BY <1>2, <1>9, <2>1 DEF Events
    <2>3. QED
      BY <1>1, <1>4, <2>2 DEF ChannelsAreCurrent, Counts
  <1>12. EveryEventCounts'
    BY <1>1, <1>4 DEF EveryEventCounts
  <1>13. QED
    BY <1>5, <1>6, <1>7, <1>10, <1>11, <1>12

\* The first event still to come is the next received: the order stays.
LEMMA MoveKeepsOrder ==
    ASSUME NEW w \in Seq(Events), NEW q \in Seq(Events), q # <<>>,
           Ordered(w), Ordered(q), AllPrecede(w, q)
    PROVE  LET h == Head(q)
           IN  /\ h \in Events /\ Append(w, h) \in Seq(Events) /\ Tail(q) \in Seq(Events)
               /\ Ordered(Append(w, h)) /\ Ordered(Tail(q)) /\ AllPrecede(Append(w, h), Tail(q))
               /\ \A r \in Seq(Events) :
                     AllPrecede(w, r) /\ AllPrecede(q, r)
                        => AllPrecede(Append(w, h), r) /\ AllPrecede(Tail(q), r)
               /\ \A f \in Events :
                     IsBefore(w, f) /\ IsBefore(q, f)
                        => IsBefore(Append(w, h), f) /\ IsBefore(Tail(q), f)
  <1> DEFINE h == Head(q)
  <1>1. h \in Events /\ Append(w, h) \in Seq(Events) /\ Tail(q) \in Seq(Events)
    BY TailEvents, AppendEvent
  <1>2. /\ Ordered(Tail(q)) /\ \A j \in DOMAIN Tail(q) : Precedes(h, Tail(q)[j])
        /\ AllPrecede(w, Tail(q)) /\ IsBefore(w, h)
    BY TailKeepsOrder
  <1>3. \A r : AllPrecede(q, r) => AllPrecede(Tail(q), r) /\ \A j \in DOMAIN r : Precedes(h, r[j])
    BY TailKeepsOrder
  <1>4. \A f : IsBefore(q, f) => IsBefore(Tail(q), f) /\ Precedes(h, f)
    BY TailKeepsOrder
  <1> HIDE DEF h
  <1>5. Ordered(Append(w, h)) /\ AllPrecede(Append(w, h), Tail(q))
    BY <1>1, <1>2, AppendKeepsOrder
  <1>6. \A r \in Seq(Events) :
           AllPrecede(w, r) /\ AllPrecede(q, r)
              => AllPrecede(Append(w, h), r) /\ AllPrecede(Tail(q), r)
    BY <1>1, <1>3, AppendKeepsOrder
  <1>7. \A f \in Events :
           IsBefore(w, f) /\ IsBefore(q, f)
              => IsBefore(Append(w, h), f) /\ IsBefore(Tail(q), f)
    BY <1>1, <1>4, AppendKeepsOrder
  <1>8. QED
    BY <1>1, <1>2, <1>5, <1>6, <1>7 DEF h

\* A stream writes the next event of its snapshot, or starts to receive.
LEMMA ReplayKeepsIInv ==
    ASSUME IInv, NEW s \in Streams, Replay(s)
    PROVE  IInv'
  <1> USE DEF IInv, ringVars
  <1> DEFINE h == Head(snapshot[s])
  <1>1. /\ at[s] = "replay"
        /\ UNCHANGED <<holder, ringVars, dropped, subscribers, events, lost, stopping, since>>
    BY DEF Replay
  <1>2. /\ RingHoldsLatest'
        /\ \A t \in Streams : /\ NextFor(t)' = NextFor(t) /\ Visiting(t)' = Visiting(t)
                              /\ Draining(t)' = Draining(t) /\ Pending(t)' = Pending(t)
    BY <1>1 DEF RingHoldsLatest, Slot, NextFor, Visiting, Draining, Pending
  <1>3. CASE snapshot[s] = <<>>
    <2>1. at' = [at EXCEPT ![s] = "live"] /\ UNCHANGED <<snapshot, written>>
      BY <1>3 DEF Replay
    <2>2. TypeOK'
      BY <1>1, <2>1 DEF TypeOK
    <2>3. ChannelsInUseAreOpen' /\ EvictionMakesRoom' /\ HolderKnows' /\ IdleStreamsAreEmpty'
      BY <1>1, <1>3, <2>1
         DEF ChannelsInUseAreOpen, EvictionMakesRoom, HolderKnows, IdleStreamsAreEmpty, TypeOK
    <2>4. OrderOfStreams' /\ NothingIsAhead'
      BY <1>1, <1>2, <2>1 DEF OrderOfStreams, NothingIsAhead
    <2>5. ChannelsAreCurrent'
      BY <1>1, <1>2, <2>1 DEF ChannelsAreCurrent, Counts
    <2>6. \A t \in Streams : Received(t)' = Received(t)
      BY <1>1, <2>1 DEF Received, Counts
    <2>7. EveryEventCounts'
      BY <1>1, <1>2, <2>6 DEF EveryEventCounts
    <2>8. QED
      BY <1>2, <2>2, <2>3, <2>4, <2>5, <2>7
  <1>4. CASE snapshot[s] # <<>>
    <2>1. /\ snapshot' = [snapshot EXCEPT ![s] = Tail(@)]
          /\ written' = [written EXCEPT ![s] = Append(@, h)]
          /\ at' = at
          /\ snapshot'[s] = Tail(snapshot[s]) /\ written'[s] = Append(written[s], h)
          /\ \A t \in Streams \ {s} : snapshot'[t] = snapshot[t] /\ written'[t] = written[t]
          /\ written[s] \in Seq(Events) /\ snapshot[s] \in Seq(Events) /\ events[s] \in Seq(Events)
          /\ NextFor(s) \in Events
      BY <1>4, NextIsEvent DEF Replay, TypeOK
    <2>2. /\ Ordered(written[s]) /\ Ordered(snapshot[s]) /\ Ordered(events[s])
          /\ AllPrecede(written[s], snapshot[s])
          /\ AllPrecede(written[s], events[s])
          /\ AllPrecede(snapshot[s], events[s])
          /\ IsBefore(written[s], NextFor(s)) /\ IsBefore(snapshot[s], NextFor(s))
      BY DEF OrderOfStreams, NothingIsAhead
    <2>3. /\ h \in Events /\ Append(written[s], h) \in Seq(Events)
          /\ Tail(snapshot[s]) \in Seq(Events)
          /\ Ordered(Append(written[s], h)) /\ Ordered(Tail(snapshot[s]))
          /\ AllPrecede(Append(written[s], h), Tail(snapshot[s]))
          /\ AllPrecede(Append(written[s], h), events[s])
          /\ AllPrecede(Tail(snapshot[s]), events[s])
          /\ IsBefore(Append(written[s], h), NextFor(s))
          /\ IsBefore(Tail(snapshot[s]), NextFor(s))
      BY <1>4, <2>1, <2>2, MoveKeepsOrder
    <2>4. ~Counts(s, h) /\ \A i \in DOMAIN Tail(snapshot[s]) : ~Counts(s, Tail(snapshot[s])[i])
      BY <1>4, <2>1, TailEvents DEF ChannelsAreCurrent
    <2> HIDE DEF h
    <2>5. TypeOK'
      BY <1>1, <2>1, <2>3 DEF TypeOK
    <2>6. ChannelsInUseAreOpen' /\ EvictionMakesRoom' /\ HolderKnows' /\ IdleStreamsAreEmpty'
      BY <1>1, <1>4, <2>1
         DEF ChannelsInUseAreOpen, EvictionMakesRoom, HolderKnows, IdleStreamsAreEmpty
    <2>7. OrderOfStreams'
      BY <1>1, <2>1, <2>2, <2>3 DEF OrderOfStreams
    <2>8. NothingIsAhead'
      BY <1>1, <1>2, <2>1, <2>3 DEF NothingIsAhead
    <2>9. ChannelsAreCurrent'
      BY <1>1, <1>2, <2>1, <2>4 DEF ChannelsAreCurrent, Counts
    <2>10. \A t \in Streams : Cardinality(Received(t)') = Cardinality(Received(t))
      <3>1. Cardinality(Received(s)') = Cardinality(Received(s))
        BY <1>1, <2>1, <2>3, <2>4, ReceivedGrows, ReceivedIsFinite
      <3>2. \A t \in Streams \ {s} : Received(t)' = Received(t)
        BY <1>1, <2>1 DEF Received, Counts
      <3>3. QED
        BY <3>1, <3>2
    <2>11. EveryEventCounts'
      BY <1>1, <1>2, <2>10 DEF EveryEventCounts
    <2>12. QED
      BY <1>2, <2>5, <2>6, <2>7, <2>8, <2>9, <2>11
  <1>5. QED
    BY <1>3, <1>4

\* A stream writes the next event of its channel.
LEMMA ReceiveKeepsIInv ==
    ASSUME IInv, NEW s \in Streams, Receive(s)
    PROVE  IInv'
  <1> USE DEF IInv, ringVars
  <1> DEFINE h == Head(events[s])
  <1>1. /\ events[s] # <<>> /\ at[s] = "live" /\ snapshot[s] = <<>>
        /\ events' = [events EXCEPT ![s] = Tail(@)]
        /\ written' = [written EXCEPT ![s] = Append(@, h)]
        /\ UNCHANGED <<holder, ringVars, dropped, subscribers, lost, at, snapshot,
                       stopping, since>>
    BY DEF Receive, IdleStreamsAreEmpty
  <1>2. /\ RingHoldsLatest'
        /\ \A t \in Streams : /\ NextFor(t)' = NextFor(t) /\ Visiting(t)' = Visiting(t)
                              /\ Draining(t)' = Draining(t) /\ Pending(t)' = Pending(t)
    BY <1>1 DEF RingHoldsLatest, Slot, NextFor, Visiting, Draining, Pending
  <1>3. /\ events'[s] = Tail(events[s]) /\ written'[s] = Append(written[s], h)
        /\ \A t \in Streams \ {s} : events'[t] = events[t] /\ written'[t] = written[t]
        /\ written[s] \in Seq(Events) /\ events[s] \in Seq(Events)
        /\ Len(events[s]) \in Nat /\ Len(events[s]) <= SubscriberBuffer
        /\ SubscriberBuffer \in Nat /\ lost[s] \in Nat
        /\ NextFor(s) \in Events
    <2>1. /\ events \in [Streams -> Seq(Events)] /\ written \in [Streams -> Seq(Events)]
          /\ lost \in [Streams -> Nat] /\ SubscriberBuffer \in Nat
          /\ Len(events[s]) <= SubscriberBuffer
      BY CapacityAssumption DEF TypeOK
    <2>2. NextFor(s) \in Events
      BY NextIsEvent
    <2>3. Len(events[s]) \in Nat
      BY <2>1
    <2>4. /\ events'[s] = Tail(events[s]) /\ written'[s] = Append(written[s], h)
          /\ \A t \in Streams \ {s} : events'[t] = events[t] /\ written'[t] = written[t]
      BY <1>1, <2>1
    <2>5. QED
      BY <2>1, <2>2, <2>3, <2>4
  <1>4. /\ Ordered(written[s]) /\ Ordered(events[s]) /\ AllPrecede(written[s], events[s])
        /\ IsBefore(written[s], NextFor(s)) /\ IsBefore(events[s], NextFor(s))
    BY DEF OrderOfStreams, NothingIsAhead
  <1>5. /\ h \in Events /\ Append(written[s], h) \in Seq(Events)
        /\ Tail(events[s]) \in Seq(Events)
        /\ Ordered(Append(written[s], h)) /\ Ordered(Tail(events[s]))
        /\ AllPrecede(Append(written[s], h), Tail(events[s]))
        /\ IsBefore(Append(written[s], h), NextFor(s))
        /\ IsBefore(Tail(events[s]), NextFor(s))
    BY <1>1, <1>3, <1>4, MoveKeepsOrder
  <1>6. /\ Len(Tail(events[s])) = Len(events[s]) - 1
        /\ ~Draining(s) => /\ Counts(s, h)
                           /\ \A i \in DOMAIN Tail(events[s]) : Counts(s, Tail(events[s])[i])
    BY <1>1, <1>3, TailEvents DEF ChannelsAreCurrent
  <1> HIDE DEF h
  <1>7. TypeOK'
    <2>1. \A t \in Streams : Len(events'[t]) <= SubscriberBuffer
      <3>1. Len(events'[s]) <= SubscriberBuffer
        BY <1>3, <1>6
      <3>2. \A t \in Streams : Len(events[t]) <= SubscriberBuffer
        BY DEF TypeOK
      <3>3. QED
        BY <1>3, <3>1, <3>2
    <2>2. QED
      BY <1>1, <1>3, <1>5, <2>1 DEF TypeOK
  <1>8. EvictionMakesRoom'
    BY <1>1, <1>3, <1>6 DEF EvictionMakesRoom
  <1>9. ChannelsInUseAreOpen' /\ HolderKnows' /\ IdleStreamsAreEmpty'
    BY <1>1, <1>3 DEF ChannelsInUseAreOpen, HolderKnows, IdleStreamsAreEmpty
  <1>10. OrderOfStreams'
    BY <1>1, <1>3, <1>5, EmptyIsOrdered DEF OrderOfStreams
  <1>11. NothingIsAhead'
    BY <1>1, <1>2, <1>3, <1>5 DEF NothingIsAhead
  <1>12. ChannelsAreCurrent'
    BY <1>1, <1>2, <1>3, <1>6 DEF ChannelsAreCurrent, Counts
  <1>13. EveryEventCounts'
    <2>1. ~Draining(s) => Cardinality(Received(s)') = Cardinality(Received(s)) + 1
      BY <1>1, <1>3, <1>5, <1>6, ReceivedGrows
    <2>2. \A t \in Streams \ {s} : Received(t)' = Received(t)
      BY <1>1, <1>3 DEF Received, Counts
    <2>3. Cardinality(Received(s)) \in Nat
      BY ReceivedIsFinite
    <2>4. ~Draining(s) => Cardinality(Received(s)') + Len(events'[s])
                             = Cardinality(Received(s)) + Len(events[s])
      BY <1>3, <1>6, <2>1, <2>3
    <2>5. QED
      BY <1>1, <1>2, <1>3, <2>2, <2>4 DEF EveryEventCounts
  <1>14. QED
    BY <1>2, <1>7, <1>8, <1>9, <1>10, <1>11, <1>12, <1>13

\* What a step of Publish or Reset on the channel of s leaves alone.
LEMMA OtherStreams ==
    ASSUME IInv, NEW s \in Streams,
           events' = [events EXCEPT ![s] = events'[s]],
           lost' = [lost EXCEPT ![s] = lost'[s]],
           UNCHANGED <<ringVars, subscribers, streamVars, stopping, since>>
    PROVE  /\ \A t \in Streams \ {s} : events'[t] = events[t] /\ lost'[t] = lost[t]
           /\ \A t \in Streams : Received(t)' = Received(t)
           /\ RingHoldsLatest'
           /\ (\A t \in Streams : t \in subscribers <=> at[t] # "off")'
  BY DEF IInv, TypeOK, ringVars, streamVars, Received, Counts, RingHoldsLatest, Slot,
         ChannelsInUseAreOpen

\* An event is offered to a subscription: its channel takes it, or is full.
LEMMA OfferKeepsIInv ==
    ASSUME IInv, NEW s \in Streams, Offer(s)
    PROVE  IInv'
  <1> USE DEF IInv, ringVars, streamVars
  <1> DEFINE rest == holder.todo \ {s}
             room == Len(events[s]) < SubscriberBuffer
             target == IF room THEN None ELSE s
             step == IF room THEN "offer" ELSE "evict"
             q == Append(events[s], holder.event)
  <1>1. /\ holder.kind = "publish" /\ holder.step = "offer" /\ s \in holder.todo
        /\ holder' = Publishing(holder.event, rest, target, step)
        /\ IF room THEN events' = [events EXCEPT ![s] = q] ELSE events' = events
        /\ UNCHANGED <<ringVars, dropped, subscribers, lost, streamVars, stopping, since>>
    BY DEF Offer
  <1>2. /\ holder.event \in Events /\ holder.event = NextFor(s)
        /\ holder.event = [epoch |-> epoch, id |-> nextID] /\ nextID > 0
        /\ holder.target = None /\ holder # Free /\ holder.todo \subseteq subscribers
        /\ subscribers \subseteq Streams /\ None \notin Streams
    BY <1>1, HolderCases, NoneAssumption
       DEF HolderKnows, NextFor, Visiting, Free, ChannelsInUseAreOpen, TypeOK
  <1>3. /\ holder'.kind = "publish" /\ holder'.event = holder.event /\ holder'.todo = rest
        /\ holder'.target = target /\ holder'.step = step /\ holder' # Free
    BY <1>1 DEF Publishing, Free
  <1>4. /\ \A t \in Streams : ~Draining(t) /\ ~Draining(t)'
        /\ \A t \in Streams \ {s} : Visiting(t)' = Visiting(t) /\ NextFor(t)' = NextFor(t)
                                    /\ (Visiting(t) => Pending(t) = 1 /\ Pending(t)' = 1)
                                    /\ (~Visiting(t) => Pending(t) = 0 /\ Pending(t)' = 0)
        /\ Visiting(s) /\ Pending(s) = 1
        /\ room => ~Visiting(s)' /\ Pending(s)' = 0
        /\ ~room => Visiting(s)' /\ Pending(s)' = 1
    BY <1>1, <1>2, <1>3 DEF Visiting, Draining, NextFor, Pending
  <1>5. /\ events[s] \in Seq(Events) /\ Len(events[s]) \in Nat
        /\ SubscriberBuffer \in Nat /\ events \in [Streams -> Seq(Events)]
        /\ written[s] \in Seq(Events) /\ snapshot[s] \in Seq(Events) /\ lost[s] \in Nat
        /\ \A t \in Streams : Len(events[t]) <= SubscriberBuffer
    BY CapacityAssumption DEF TypeOK
  <1>6. /\ q \in Seq(Events) /\ Len(q) = Len(events[s]) + 1
        /\ Ordered(q) /\ AllPrecede(written[s], q) /\ AllPrecede(snapshot[s], q)
    <2>1. q \in Seq(Events) /\ Len(q) = Len(events[s]) + 1
      BY <1>2, <1>5, AppendEvent
    <2>2. /\ Ordered(events[s]) /\ AllPrecede(written[s], events[s])
          /\ AllPrecede(snapshot[s], events[s])
      BY DEF OrderOfStreams
    <2>3. /\ IsBefore(written[s], holder.event) /\ IsBefore(snapshot[s], holder.event)
          /\ IsBefore(events[s], holder.event)
      BY <1>2 DEF NothingIsAhead
    <2>4. QED
      BY <1>2, <1>5, <2>1, <2>2, <2>3, AppendKeepsOrder
  <1>7. room => /\ NextFor(s)' \in Events /\ Precedes(holder.event, NextFor(s)')
                /\ IsBefore(written[s], NextFor(s)') /\ IsBefore(snapshot[s], NextFor(s)')
                /\ IsBefore(q, NextFor(s)')
    <2>1. room => NextFor(s)' \in Events /\ Precedes(holder.event, NextFor(s)')
      BY <1>1, <1>2, <1>4 DEF NextFor, Precedes, Events, TypeOK
    <2>2. room => IsBefore(written[s], NextFor(s)') /\ IsBefore(snapshot[s], NextFor(s)')
                  /\ IsBefore(events[s], NextFor(s)')
      BY <1>2, <1>5, <2>1, BeforeLater DEF NothingIsAhead
    <2>3. QED
      BY <1>2, <1>5, <2>1, <2>2, AppendKeepsOrder
  <1>8. \A i \in DOMAIN q : Counts(s, q[i])
    BY <1>2, <1>4, <1>5, AppendEvent DEF ChannelsAreCurrent, Counts
  <1>9. /\ \A t \in Streams \ {s} : events'[t] = events[t]
        /\ events'[s] = IF room THEN q ELSE events[s]
        /\ \A t \in Streams : Received(t)' = Received(t)
        /\ RingHoldsLatest'
        /\ (\A t \in Streams : t \in subscribers <=> at[t] # "off")'
    BY <1>1, <1>5 DEF Received, Counts, RingHoldsLatest, Slot, ChannelsInUseAreOpen
  <1> HIDE DEF q
  <1>10. TypeOK'
    <2>1. holder' \in Holders
      BY <1>1, <1>2 DEF Publishing, Holders
    <2>2. /\ events' \in [Streams -> Seq(Events)]
          /\ \A t \in Streams : Len(events'[t]) <= SubscriberBuffer
      <3>1. events'[s] \in Seq(Events) /\ Len(events'[s]) <= SubscriberBuffer
        BY <1>5, <1>6, <1>9
      <3>2. events' = [events EXCEPT ![s] = events'[s]]
        BY <1>1, <1>5, <1>9
      <3>3. QED
        BY <1>5, <1>9, <3>1, <3>2
    <2>3. QED
      BY <1>1, <2>1, <2>2 DEF TypeOK
  <1>11. ChannelsInUseAreOpen'
    BY <1>1, <1>2, <1>3, <1>9 DEF ChannelsInUseAreOpen
  <1>12. EvictionMakesRoom' /\ HolderKnows'
    BY <1>1, <1>2, <1>3 DEF EvictionMakesRoom, HolderKnows
  <1>13. IdleStreamsAreEmpty'
    BY <1>1, <1>2, <1>9 DEF IdleStreamsAreEmpty, ChannelsInUseAreOpen
  <1>14. OrderOfStreams'
    BY <1>1, <1>6, <1>9 DEF OrderOfStreams
  <1>15. NothingIsAhead'
    <2>1. ~room => NextFor(s)' = NextFor(s)
      BY <1>1, <1>4 DEF NextFor
    <2>2. QED
      BY <1>1, <1>4, <1>7, <1>9, <2>1 DEF NothingIsAhead
  <1>16. ChannelsAreCurrent'
    BY <1>1, <1>4, <1>8, <1>9 DEF ChannelsAreCurrent, Counts
  <1>17. EveryEventCounts'
    <2>1. Cardinality(Received(s)) \in Nat
      BY ReceivedIsFinite
    <2>2. Len(events'[s]) + Pending(s)' = Len(events[s]) + Pending(s)
      BY <1>4, <1>5, <1>6, <1>9
    <2>3. Len(events'[s]) \in Nat /\ Pending(s) \in Nat /\ Pending(s)' \in Nat
      BY <1>4, <1>5, <1>6, <1>9
    <2>4. s \in subscribers /\ nextID - since[s]
             = Cardinality(Received(s)) + Len(events[s]) + lost[s] + Pending(s)
      BY <1>1, <1>2, <1>4 DEF EveryEventCounts
    <2>5. nextID - since[s]
             = Cardinality(Received(s)) + Len(events'[s]) + lost[s] + Pending(s)'
      <3> DEFINE r == Cardinality(Received(s))
                 n == Len(events[s])   n1 == Len(events'[s])
                 p == Pending(s)       p1 == Pending(s)'
                 l == lost[s]          d == nextID - since[s]
      <3>1. /\ r \in Nat /\ n \in Nat /\ n1 \in Nat /\ p \in Nat /\ p1 \in Nat /\ l \in Nat
            /\ n1 + p1 = n + p /\ d = r + n + l + p
        BY <1>5, <2>1, <2>2, <2>3, <2>4
      <3> HIDE DEF r, n, n1, p, p1, l, d
      <3>2. d = r + n1 + l + p1
        BY <3>1
      <3>3. QED
        BY <3>2 DEF r, n, n1, p, p1, l, d
    <2>6. QED
      BY <1>1, <1>4, <1>9, <2>5 DEF EveryEventCounts
  <1>18. QED
    BY <1>9, <1>10, <1>11, <1>12, <1>13, <1>14, <1>15, <1>16, <1>17

\* A queue that loses its first event.
LEMMA TailOfChannel ==
    ASSUME IInv, NEW s \in Streams, events[s] # <<>>
    PROVE  LET q == Tail(events[s])
           IN  /\ q \in Seq(Events) /\ Len(q) = Len(events[s]) - 1
               /\ Len(events[s]) \in Nat /\ Len(q) \in Nat
               /\ Len(q) < SubscriberBuffer /\ SubscriberBuffer \in Nat
               /\ Ordered(q) /\ AllPrecede(written[s], q) /\ AllPrecede(snapshot[s], q)
               /\ \A f : IsBefore(events[s], f) => IsBefore(q, f)
               /\ ~Draining(s) => \A i \in DOMAIN q : Counts(s, q[i])
  <1> DEFINE q == Tail(events[s])
  <1>1. /\ events[s] \in Seq(Events) /\ Len(events[s]) <= SubscriberBuffer
        /\ SubscriberBuffer \in Nat
    BY CapacityAssumption DEF IInv, TypeOK
  <1>2. /\ q \in Seq(Events) /\ Len(q) = Len(events[s]) - 1
        /\ Len(events[s]) \in Nat /\ Len(q) \in Nat
        /\ \A i \in DOMAIN q : i + 1 \in DOMAIN events[s] /\ q[i] = events[s][i + 1]
    BY <1>1, TailEvents, EventOfQueue
  <1>3. Ordered(q) /\ AllPrecede(written[s], q) /\ AllPrecede(snapshot[s], q)
    BY <1>1, TailKeepsOrder DEF IInv, OrderOfStreams
  <1>4. \A f : IsBefore(events[s], f) => IsBefore(q, f)
    BY <1>1, TailKeepsOrder
  <1>5. ~Draining(s) => \A i \in DOMAIN q : Counts(s, q[i])
    BY <1>2 DEF IInv, ChannelsAreCurrent
  <1>6. QED
    BY <1>1, <1>2, <1>3, <1>4, <1>5

\* The oldest event makes room for the one being published.
LEMMA EvictKeepsIInv ==
    ASSUME IInv, NEW s \in Streams, Evict(s)
    PROVE  IInv'
  <1> USE DEF IInv, ringVars, streamVars
  <1> DEFINE full == events[s] # <<>>
             q == Tail(events[s])
             step == IF full THEN "retry_dropped" ELSE "retry"
  <1>1. /\ holder.kind = "publish" /\ holder.step = "evict" /\ holder.target = s
        /\ holder' = [holder EXCEPT !.step = step]
        /\ IF full THEN events' = [events EXCEPT ![s] = q] ELSE events' = events
        /\ UNCHANGED <<ringVars, dropped, subscribers, lost, streamVars, stopping, since>>
    BY DEF Evict
  <1>2. /\ events \in [Streams -> Seq(Events)] /\ lost \in [Streams -> Nat]
        /\ \A t \in Streams : Len(events[t]) <= SubscriberBuffer
        /\ SubscriberBuffer \in Nat \ {0}
        /\ holder \in Holders
    BY CapacityAssumption DEF TypeOK
  <1>3. /\ holder'.kind = "publish" /\ holder'.event = holder.event
        /\ holder'.todo = holder.todo /\ holder'.target = s /\ holder'.step = step
        /\ holder # Free /\ holder' # Free /\ holder' \in Holders
    <2>1. holder \in [kind : {"publish"}, event : Events, todo : SUBSET Streams,
                      target : Streams \cup {None},
                      step : {"offer", "evict", "retry", "retry_dropped"}]
      BY <1>1, <1>2 DEF Holders
    <2>2. step \in {"offer", "evict", "retry", "retry_dropped"}
      OBVIOUS
    <2> HIDE DEF step
    <2>3. holder' \in [kind : {"publish"}, event : Events, todo : SUBSET Streams,
                       target : Streams \cup {None},
                       step : {"offer", "evict", "retry", "retry_dropped"}]
      BY <1>1, <2>1, <2>2
    <2>4. QED
      BY <1>1, <2>1, <2>3 DEF Holders, Free
  <1>4. \A t \in Streams :
           /\ ~Draining(t) /\ ~Draining(t)'
           /\ Visiting(t)' = Visiting(t) /\ NextFor(t)' = NextFor(t)
           /\ t # s => Pending(t)' = Pending(t)
           /\ t = s => Pending(t) = 1 /\ Pending(t)' = IF full THEN 2 ELSE 1
    BY <1>1, <1>3 DEF Visiting, Draining, NextFor, Pending
  <1>5. /\ events' = [events EXCEPT ![s] = events'[s]] /\ lost' = [lost EXCEPT ![s] = lost'[s]]
        /\ events'[s] = IF full THEN q ELSE <<>>
    BY <1>1, <1>2
  <1>6. /\ \A t \in Streams \ {s} : events'[t] = events[t] /\ lost'[t] = lost[t]
        /\ \A t \in Streams : Received(t)' = Received(t)
        /\ RingHoldsLatest'
        /\ (\A t \in Streams : t \in subscribers <=> at[t] # "off")'
    BY <1>1, <1>5, OtherStreams
  <1>7. /\ events'[s] \in Seq(Events) /\ Len(events'[s]) \in Nat /\ Len(events[s]) \in Nat
        /\ Len(events'[s]) < SubscriberBuffer
        /\ Len(events'[s]) = Len(events[s]) - (IF full THEN 1 ELSE 0)
        /\ Ordered(events'[s]) /\ AllPrecede(written[s], events'[s])
        /\ AllPrecede(snapshot[s], events'[s])
        /\ IsBefore(events'[s], NextFor(s))
        /\ \A i \in DOMAIN events'[s] : Counts(s, events'[s][i])
    <2>1. CASE full
      BY <1>4, <1>5, <2>1, TailOfChannel DEF NothingIsAhead
    <2>2. CASE ~full
      <3>1. events'[s] = <<>> /\ events[s] = <<>> /\ Len(<<>>) = 0 /\ DOMAIN <<>> = {}
        BY <1>5, <2>2
      <3>2. QED
        BY <1>2, <2>2, <3>1, EmptyIsOrdered
    <2>3. QED
      BY <2>1, <2>2
  <1> HIDE DEF q
  <1>8. TypeOK'
    <2>1. \A t \in Streams : Len(events'[t]) <= SubscriberBuffer
      <3>1. Len(events'[s]) <= SubscriberBuffer
        BY <1>2, <1>7
      <3>2. QED
        BY <1>2, <1>6, <3>1
    <2>2. events' \in [Streams -> Seq(Events)]
      BY <1>2, <1>5, <1>7
    <2>3. QED
      BY <1>1, <1>3, <2>1, <2>2 DEF TypeOK
  <1>9. ChannelsInUseAreOpen' /\ HolderKnows'
    BY <1>1, <1>3, <1>6, NoneAssumption DEF ChannelsInUseAreOpen, HolderKnows
  <1>10. EvictionMakesRoom'
    BY <1>1, <1>3, <1>7 DEF EvictionMakesRoom
  <1>11. IdleStreamsAreEmpty'
    BY <1>1, <1>3, <1>5, <1>6, NoneAssumption DEF IdleStreamsAreEmpty
  <1>12. OrderOfStreams' /\ NothingIsAhead'
    BY <1>1, <1>4, <1>6, <1>7 DEF OrderOfStreams, NothingIsAhead
  <1>13. ChannelsAreCurrent'
    BY <1>1, <1>4, <1>6, <1>7 DEF ChannelsAreCurrent, Counts
  <1>14. EveryEventCounts'
    <2>1. Len(events'[s]) + Pending(s)' = Len(events[s]) + Pending(s)
      <3>1. CASE full
        BY <1>4, <1>7, <3>1
      <3>2. CASE ~full
        BY <1>4, <1>7, <3>2
      <3>3. QED
        BY <3>1, <3>2
    <2>2. Pending(s) \in Nat /\ Pending(s)' \in Nat /\ Cardinality(Received(s)) \in Nat
          /\ lost[s] \in Nat
      BY <1>2, <1>4, ReceivedIsFinite
    <2>3. s \in subscribers => nextID - since[s]
             = Cardinality(Received(s)) + Len(events'[s]) + lost[s] + Pending(s)'
      <3> DEFINE r == Cardinality(Received(s))
                 n == Len(events[s])   n1 == Len(events'[s])
                 p == Pending(s)       p1 == Pending(s)'
                 l == lost[s]          d == nextID - since[s]
      <3>1. /\ r \in Nat /\ n \in Nat /\ n1 \in Nat /\ p \in Nat /\ p1 \in Nat /\ l \in Nat
            /\ n1 + p1 = n + p /\ (s \in subscribers => d = r + n + l + p)
        BY <1>4, <1>7, <2>1, <2>2 DEF EveryEventCounts
      <3> HIDE DEF r, n, n1, p, p1, l, d
      <3>2. s \in subscribers => d = r + n1 + l + p1
        BY <3>1
      <3>3. QED
        BY <3>2 DEF r, n, n1, p, p1, l, d
    <2>4. QED
      BY <1>1, <1>4, <1>6, <2>3 DEF EveryEventCounts
  <1>15. QED
    BY <1>6, <1>8, <1>9, <1>10, <1>11, <1>12, <1>13, <1>14

\* The event is put where the evicted one, or what the stream received, made room.
LEMMA RetryKeepsIInv ==
    ASSUME IInv, NEW s \in Streams, Retry(s)
    PROVE  IInv'
  <1> USE DEF IInv, ringVars, streamVars
  <1> DEFINE q == Append(events[s], holder.event)
             evicted == IF holder.step = "retry_dropped" THEN 1 ELSE 0
  <1>1. /\ holder.kind = "publish" /\ holder.target = s
        /\ holder.step \in {"retry", "retry_dropped"}
        /\ events[s] \in Seq(Events) /\ Len(events[s]) < SubscriberBuffer
        /\ events \in [Streams -> Seq(Events)] /\ lost \in [Streams -> Nat] /\ dropped \in Nat
        /\ holder.todo \subseteq subscribers /\ s \in subscribers /\ s \notin holder.todo
        /\ subscribers \subseteq Streams /\ holder.event \in Events
        /\ SubscriberBuffer \in Nat /\ None \notin Streams
    BY HolderCases, CapacityAssumption, NoneAssumption
       DEF Retry, EvictionMakesRoom, TypeOK, ChannelsInUseAreOpen, HolderKnows, Free
  <1>2. /\ holder' = Publishing(holder.event, holder.todo, None, "offer")
        /\ events' = [events EXCEPT ![s] = q]
        /\ lost' = [lost EXCEPT ![s] = @ + evicted]
        /\ dropped' = dropped + evicted
        /\ UNCHANGED <<ringVars, subscribers, streamVars, stopping, since>>
    <2>1. CASE holder.step = "retry_dropped"
      BY <1>1, <2>1 DEF Retry
    <2>2. CASE holder.step = "retry"
      BY <1>1, <2>2 DEF Retry
    <2>3. QED
      BY <1>1, <2>1, <2>2
  <1>3. /\ holder'.kind = "publish" /\ holder'.event = holder.event
        /\ holder'.todo = holder.todo /\ holder'.target = None /\ holder'.step = "offer"
        /\ holder # Free /\ holder' # Free
    BY <1>1, <1>2 DEF Publishing, Free
  <1>4. \A t \in Streams :
           /\ ~Draining(t) /\ ~Draining(t)'
           /\ t # s => /\ Visiting(t)' = Visiting(t) /\ NextFor(t)' = NextFor(t)
                       /\ Pending(t)' = Pending(t)
           /\ t = s => /\ Visiting(t) /\ ~Visiting(t)'
                       /\ Pending(t) = 1 + evicted /\ Pending(t)' = 0
    BY <1>1, <1>2, <1>3 DEF Visiting, Draining, NextFor, Pending
  <1>5. /\ holder.event = [epoch |-> epoch, id |-> nextID] /\ holder.event = NextFor(s)
        /\ nextID > 0 /\ nextID \in Nat /\ epoch \in Nat
        /\ NextFor(s)' = [epoch |-> epoch, id |-> nextID + 1]
        /\ NextFor(s)' \in Events /\ Precedes(holder.event, NextFor(s)')
    BY <1>1, <1>2, <1>4 DEF HolderKnows, NextFor, TypeOK, Events, Precedes
  <1>6. /\ events'[s] = q /\ lost'[s] = lost[s] + evicted
        /\ events' = [events EXCEPT ![s] = events'[s]] /\ lost' = [lost EXCEPT ![s] = lost'[s]]
        /\ evicted \in Nat
    BY <1>1, <1>2
  <1>7. /\ \A t \in Streams \ {s} : events'[t] = events[t] /\ lost'[t] = lost[t]
        /\ \A t \in Streams : Received(t)' = Received(t)
        /\ RingHoldsLatest'
        /\ (\A t \in Streams : t \in subscribers <=> at[t] # "off")'
    BY <1>2, <1>6, OtherStreams
  <1>8. /\ q \in Seq(Events) /\ Len(q) = Len(events[s]) + 1 /\ Len(q) \in Nat
        /\ Len(q) <= SubscriberBuffer /\ Len(events[s]) \in Nat
        /\ Ordered(q) /\ AllPrecede(written[s], q) /\ AllPrecede(snapshot[s], q)
        /\ IsBefore(written[s], NextFor(s)') /\ IsBefore(snapshot[s], NextFor(s)')
        /\ IsBefore(q, NextFor(s)')
        /\ \A i \in DOMAIN q : Counts(s, q[i])
    <2>1. /\ q \in Seq(Events) /\ Len(q) = Len(events[s]) + 1
          /\ Len(q) \in Nat /\ Len(events[s]) \in Nat
          /\ written[s] \in Seq(Events) /\ snapshot[s] \in Seq(Events)
      BY <1>1, AppendEvent, EventOfQueue DEF TypeOK
    <2>2. /\ Ordered(events[s]) /\ AllPrecede(written[s], events[s])
          /\ AllPrecede(snapshot[s], events[s])
      BY DEF OrderOfStreams
    <2>3. /\ IsBefore(written[s], holder.event) /\ IsBefore(snapshot[s], holder.event)
          /\ IsBefore(events[s], holder.event)
      BY <1>5 DEF NothingIsAhead
    <2>4. /\ IsBefore(written[s], NextFor(s)') /\ IsBefore(snapshot[s], NextFor(s)')
          /\ IsBefore(events[s], NextFor(s)')
      BY <1>1, <1>5, <2>1, <2>3, BeforeLater
    <2>5. /\ Ordered(q) /\ AllPrecede(written[s], q) /\ AllPrecede(snapshot[s], q)
          /\ IsBefore(q, NextFor(s)')
      BY <1>1, <1>5, <2>1, <2>2, <2>3, <2>4, AppendKeepsOrder
    <2>6. \A i \in DOMAIN q : Counts(s, q[i])
      BY <1>1, <1>4, <1>5, AppendEvent DEF ChannelsAreCurrent, Counts
    <2>7. QED
      BY <1>1, <2>1, <2>4, <2>5, <2>6
  <1> HIDE DEF q, evicted
  <1>9. TypeOK'
    <2>1. holder' \in Holders
      BY <1>1, <1>2 DEF Publishing, Holders
    <2>2. events' \in [Streams -> Seq(Events)]
      BY <1>1, <1>6, <1>8
    <2>3. \A t \in Streams : Len(events'[t]) <= SubscriberBuffer
      <3>1. Len(events'[s]) <= SubscriberBuffer
        BY <1>6, <1>8
      <3>2. \A t \in Streams : Len(events[t]) <= SubscriberBuffer
        BY DEF TypeOK
      <3>3. QED
        BY <1>7, <3>1, <3>2
    <2>4. lost' \in [Streams -> Nat] /\ dropped' \in Nat
      BY <1>1, <1>2, <1>6
    <2>5. QED
      BY <1>2, <2>1, <2>2, <2>3, <2>4 DEF TypeOK
  <1>10. ChannelsInUseAreOpen'
    BY <1>1, <1>2, <1>3, <1>7 DEF ChannelsInUseAreOpen
  <1>11. EvictionMakesRoom' /\ HolderKnows'
    BY <1>1, <1>2, <1>3, <1>5 DEF EvictionMakesRoom, HolderKnows
  <1>12. IdleStreamsAreEmpty'
    BY <1>1, <1>2, <1>7 DEF IdleStreamsAreEmpty, ChannelsInUseAreOpen
  <1>13. OrderOfStreams' /\ NothingIsAhead'
    BY <1>2, <1>4, <1>6, <1>7, <1>8 DEF OrderOfStreams, NothingIsAhead
  <1>14. ChannelsAreCurrent'
    BY <1>2, <1>4, <1>6, <1>7, <1>8 DEF ChannelsAreCurrent, Counts
  <1>15. EveryEventCounts'
    <2>1. nextID - since[s]
             = Cardinality(Received(s)) + Len(events'[s]) + lost'[s] + Pending(s)'
      <3> DEFINE r == Cardinality(Received(s))
                 n == Len(events[s])   n1 == Len(events'[s])
                 p == Pending(s)       p1 == Pending(s)'
                 l == lost[s]          l1 == lost'[s]
                 d == nextID - since[s]
      <3>1. /\ r \in Nat /\ n \in Nat /\ n1 = n + 1 /\ p = 1 + evicted /\ p1 = 0 /\ l \in Nat
            /\ l1 = l + evicted /\ d = r + n + l + p
        BY <1>1, <1>4, <1>6, <1>8, ReceivedIsFinite DEF EveryEventCounts
      <3> HIDE DEF r, n, n1, p, p1, l, l1, d
      <3>2. d = r + n1 + l1 + p1
        BY <1>6, <3>1
      <3>3. QED
        BY <3>2 DEF r, n, n1, p, p1, l, l1, d
    <2>2. \A t \in Streams : lost'[t] <= dropped'
      <3>1. \A t \in Streams : lost[t] \in Nat /\ lost[t] <= dropped
        BY <1>1, <1>4 DEF EveryEventCounts
      <3>2. lost'[s] <= dropped'
        BY <1>1, <1>2, <1>6, <3>1
      <3>3. dropped <= dropped'
        BY <1>1, <1>2, <1>6
      <3>4. \A t \in Streams \ {s} : lost'[t] <= dropped'
        BY <1>1, <1>2, <1>6, <1>7, <3>1, <3>3
      <3>5. QED
        BY <3>2, <3>4
    <2>3. QED
      BY <1>2, <1>4, <1>7, <2>1, <2>2 DEF EveryEventCounts
  <1>16. QED
    BY <1>7, <1>9, <1>10, <1>11, <1>12, <1>13, <1>14, <1>15

\* A reset empties a channel, then starts its count over.
LEMMA DrainKeepsIInv ==
    ASSUME IInv, NEW s \in Streams, Drain(s)
    PROVE  IInv'
  <1> USE DEF IInv, ringVars, streamVars
  <1>1. /\ holder.kind = "reset" /\ s \in holder.todo /\ holder # Free
        /\ holder.todo \subseteq subscribers /\ subscribers \subseteq Streams
        /\ nextID = 0 /\ events \in [Streams -> Seq(Events)] /\ lost \in [Streams -> Nat]
        /\ dropped \in Nat /\ epoch \in Nat
        /\ UNCHANGED <<ringVars, dropped, subscribers, streamVars, stopping, since>>
    BY DEF Drain, TypeOK, ChannelsInUseAreOpen, HolderKnows, Free
  <1>2. CASE events[s] # <<>>
    <2> DEFINE q == Tail(events[s])
    <2>1. /\ events' = [events EXCEPT ![s] = q] /\ holder' = holder /\ lost' = lost
          /\ events'[s] = q
      BY <1>1, <1>2 DEF Drain
    <2>2. /\ \A t \in Streams \ {s} : events'[t] = events[t] /\ lost'[t] = lost[t]
          /\ \A t \in Streams : Received(t)' = Received(t)
          /\ RingHoldsLatest'
          /\ (\A t \in Streams : t \in subscribers <=> at[t] # "off")'
      BY <1>1, <2>1, OtherStreams
    <2>3. \A t \in Streams :
             /\ Draining(t)' = Draining(t) /\ NextFor(t)' = NextFor(t)
             /\ Pending(t)' = Pending(t) /\ ~Visiting(t)'
      BY <1>1, <2>1 DEF Draining, NextFor, Pending, Visiting
    <2>4. Draining(s)
      BY <1>1 DEF Draining
    <2>5. /\ q \in Seq(Events) /\ Len(q) < SubscriberBuffer /\ SubscriberBuffer \in Nat
          /\ Len(q) \in Nat
          /\ Ordered(q) /\ AllPrecede(written[s], q) /\ AllPrecede(snapshot[s], q)
          /\ IsBefore(q, NextFor(s))
      BY <1>2, TailOfChannel DEF NothingIsAhead
    <2> HIDE DEF q
    <2>6. TypeOK'
      <3>1. Len(events'[s]) <= SubscriberBuffer
        BY <2>1, <2>5
      <3>2. \A t \in Streams : Len(events[t]) <= SubscriberBuffer
        BY DEF TypeOK
      <3>3. \A t \in Streams : Len(events'[t]) <= SubscriberBuffer
        BY <2>2, <3>1, <3>2
      <3>4. events' \in [Streams -> Seq(Events)]
        BY <1>1, <2>1, <2>5
      <3>5. QED
        BY <1>1, <2>1, <3>3, <3>4 DEF TypeOK
    <2>7. ChannelsInUseAreOpen' /\ EvictionMakesRoom' /\ HolderKnows'
      BY <1>1, <2>1 DEF ChannelsInUseAreOpen, EvictionMakesRoom, HolderKnows
    <2>8. IdleStreamsAreEmpty'
      BY <1>1, <2>1, <2>2 DEF IdleStreamsAreEmpty, ChannelsInUseAreOpen
    <2>9. OrderOfStreams' /\ NothingIsAhead'
      BY <1>1, <2>1, <2>2, <2>3, <2>5 DEF OrderOfStreams, NothingIsAhead
    <2>10. ChannelsAreCurrent' /\ EveryEventCounts'
      BY <1>1, <2>1, <2>2, <2>3, <2>4 DEF ChannelsAreCurrent, EveryEventCounts, Counts
    <2>11. QED
      BY <2>2, <2>6, <2>7, <2>8, <2>9, <2>10
  <1>3. CASE events[s] = <<>>
    <2>1. /\ holder' = Resetting(holder.todo \ {s}) /\ events' = events
          /\ lost' = [lost EXCEPT ![s] = 0] /\ lost'[s] = 0
      BY <1>1, <1>3 DEF Drain
    <2>2. /\ \A t \in Streams \ {s} : events'[t] = events[t] /\ lost'[t] = lost[t]
          /\ \A t \in Streams : Received(t)' = Received(t)
          /\ RingHoldsLatest'
          /\ (\A t \in Streams : t \in subscribers <=> at[t] # "off")'
      BY <1>1, <2>1, OtherStreams
    <2>3. /\ holder'.kind = "reset" /\ holder'.todo = holder.todo \ {s} /\ holder' # Free
      BY <2>1 DEF Resetting, Free
    <2>4. \A t \in Streams :
             /\ NextFor(t)' = NextFor(t) /\ ~Visiting(t)' /\ ~Visiting(t)
             /\ Pending(t)' = 0 /\ Pending(t) = 0
             /\ t # s => Draining(t)' = Draining(t)
      BY <1>1, <2>1, <2>3 DEF Draining, NextFor, Pending, Visiting
    <2>5. TypeOK'
      <3>1. holder' \in Holders
        BY <1>1, <2>1 DEF Resetting, Holders
      <3>2. QED
        BY <1>1, <2>1, <3>1 DEF TypeOK
    <2>6. ChannelsInUseAreOpen' /\ EvictionMakesRoom' /\ HolderKnows'
      BY <1>1, <2>1, <2>3 DEF ChannelsInUseAreOpen, EvictionMakesRoom, HolderKnows
    <2>7. IdleStreamsAreEmpty'
      BY <1>1, <2>1, <2>2 DEF IdleStreamsAreEmpty
    <2>8. OrderOfStreams' /\ NothingIsAhead'
      BY <1>1, <2>1, <2>4 DEF OrderOfStreams, NothingIsAhead
    <2>9. ChannelsAreCurrent'
      <3>1. DOMAIN events'[s] = {} /\ since' = since /\ snapshot' = snapshot /\ nextID' = nextID
        BY <1>1, <1>3, <2>1
      <3>2. \A t \in Streams : ~Draining(t)' => \A i \in DOMAIN events'[t] : Counts(t, events[t][i])'
        BY <1>1, <2>1, <2>4, <3>1 DEF ChannelsAreCurrent, Counts
      <3>3. QED
        BY <1>1, <2>1, <2>4, <3>1, <3>2 DEF ChannelsAreCurrent, Counts
    <2>10. EveryEventCounts'
      <3>1. since[s] = 0
        BY <1>1 DEF ChannelsAreCurrent, TypeOK
      <3>2. \A i \in DOMAIN written[s] : ~Counts(s, written[s][i])
        <4> SUFFICES ASSUME NEW i \in DOMAIN written[s] PROVE ~Counts(s, written[s][i])
          OBVIOUS
        <4>1. /\ written[s][i].epoch \in Nat /\ written[s][i].id \in Nat
              /\ written[s][i].id > 0
          BY EventOfQueue DEF TypeOK
        <4>2. Precedes(written[s][i], NextFor(s)) /\ NextFor(s) = [epoch |-> epoch, id |-> 1]
          BY <1>1, <2>4 DEF NothingIsAhead, IsBefore, NextFor
        <4>3. QED
          BY <1>1, <4>1, <4>2 DEF Counts, Precedes
      <3>3. Cardinality(Received(s)) = 0
        BY <3>2, FS_EmptySet DEF Received
      <3>4. nextID - since[s]
               = Cardinality(Received(s)) + Len(events'[s]) + lost'[s] + Pending(s)'
        BY <1>1, <1>3, <2>1, <2>4, <3>1, <3>3
      <3>5. \A t \in Streams \ {s} : ~Draining(t)' =>
               /\ t \in subscribers' =>
                     nextID' - since'[t] = Cardinality(Received(t)') + Len(events'[t])
                                              + lost'[t] + Pending(t)'
               /\ lost'[t] <= dropped'
        BY <1>1, <2>1, <2>2, <2>4 DEF EveryEventCounts
      <3>6. QED
        BY <1>1, <2>1, <2>2, <3>4, <3>5 DEF EveryEventCounts
    <2>11. QED
      BY <2>2, <2>5, <2>6, <2>7, <2>8, <2>9, <2>10
  <1>4. QED
    BY <1>2, <1>3

\* Every step of the bus and of its streams.
LEMMA NextKeepsIInv ==
    ASSUME IInv, [Next]_busVars
    PROVE  IInv'
  <1>1. CASE Publish
    BY <1>1, PublishKeepsIInv
  <1>2. CASE Reset
    BY <1>2, ResetKeepsIInv
  <1>3. CASE HoldMutex
    BY <1>3, UnlockKeepsIInv, OfferKeepsIInv, EvictKeepsIInv, RetryKeepsIInv, DrainKeepsIInv
       DEF HoldMutex
  <1>4. CASE BeginShutdown \/ UNCHANGED busVars
    BY <1>4, BeginShutdownKeepsIInv
  <1>5. ASSUME NEW s \in Streams,
               Subscribe(s) \/ Replay(s) \/ Receive(s) \/ Disconnect(s) \/ Stop(s) \/ Close(s)
        PROVE  IInv'
    BY <1>5, SubscribeKeepsIInv, ReplayKeepsIInv, ReceiveKeepsIInv, LeaveKeepsIInv, CloseKeepsIInv
  <1>6. QED
    BY <1>1, <1>2, <1>3, <1>4, <1>5 DEF Next

\* Ordered queues, one before the other, are an ordered queue.
LEMMA ConcatKeepsOrder ==
    ASSUME NEW p \in Seq(Events), NEW q \in Seq(Events),
           Ordered(p), Ordered(q), AllPrecede(p, q)
    PROVE  /\ p \o q \in Seq(Events) /\ Ordered(p \o q)
           /\ \A r : AllPrecede(p, r) /\ AllPrecede(q, r) => AllPrecede(p \o q, r)
  <1>1. /\ Len(p) \in Nat /\ Len(q) \in Nat
        /\ DOMAIN p = 1 .. Len(p) /\ DOMAIN q = 1 .. Len(q)
        /\ p \o q \in Seq(Events) /\ DOMAIN (p \o q) = 1 .. Len(p) + Len(q)
        /\ \A i \in 1 .. Len(p) + Len(q) :
              (p \o q)[i] = IF i <= Len(p) THEN p[i] ELSE q[i - Len(p)]
    OBVIOUS
  <1>2. Ordered(p \o q)
    <2> SUFFICES ASSUME NEW i \in DOMAIN (p \o q), NEW j \in DOMAIN (p \o q), i < j
                 PROVE  Precedes((p \o q)[i], (p \o q)[j])
      BY DEF Ordered
    <2>1. CASE j <= Len(p)
      BY <1>1, <2>1 DEF Ordered
    <2>2. CASE i <= Len(p) /\ j > Len(p)
      BY <1>1, <2>2 DEF AllPrecede
    <2>3. CASE i > Len(p)
      BY <1>1, <2>3 DEF Ordered
    <2>4. QED
      BY <1>1, <2>1, <2>2, <2>3
  <1>3. \A r : AllPrecede(p, r) /\ AllPrecede(q, r) => AllPrecede(p \o q, r)
    BY <1>1 DEF AllPrecede
  <1>4. QED
    BY <1>1, <1>2, <1>3

\* What a stream received, has to write and has in its channel, in this order.
LEMMA IInvImpliesOrder == IInv => StreamsAreOrdered
  <1> SUFFICES ASSUME IInv, NEW s \in Streams
               PROVE  LET all == written[s] \o snapshot[s] \o events[s]
                      IN  \A i, j \in DOMAIN all : i < j => Precedes(all[i], all[j])
    BY DEF StreamsAreOrdered, Precedes
  <1>1. /\ written[s] \in Seq(Events) /\ snapshot[s] \in Seq(Events) /\ events[s] \in Seq(Events)
        /\ Ordered(written[s]) /\ Ordered(snapshot[s]) /\ Ordered(events[s])
        /\ AllPrecede(written[s], snapshot[s])
        /\ AllPrecede(written[s], events[s]) /\ AllPrecede(snapshot[s], events[s])
    BY DEF IInv, TypeOK, OrderOfStreams
  <1>2. /\ written[s] \o snapshot[s] \in Seq(Events) /\ Ordered(written[s] \o snapshot[s])
        /\ AllPrecede(written[s] \o snapshot[s], events[s])
    BY <1>1, ConcatKeepsOrder
  <1>3. Ordered((written[s] \o snapshot[s]) \o events[s])
    BY <1>1, <1>2, ConcatKeepsOrder
  <1>4. QED
    BY <1>3 DEF Ordered

\* While no one holds the mutex nothing is pending.
LEMMA IInvImpliesLosses == IInv => LossesAreCounted
  <1> SUFFICES ASSUME IInv, holder = Free
               PROVE  LossesAreCounted
    BY DEF LossesAreCounted
  <1>1. \A s \in Streams : ~Draining(s) /\ Pending(s) = 0
    BY DEF Draining, Pending, Visiting, Free
  <1>2. \A s \in Streams : lost[s] <= dropped
    BY <1>1 DEF IInv, EveryEventCounts
  <1>3. \A s \in subscribers :
           nextID - since[s] = Cardinality(Received(s)) + Len(events[s]) + lost[s]
    <2> SUFFICES ASSUME NEW s \in subscribers
                 PROVE  nextID - since[s] = Cardinality(Received(s)) + Len(events[s]) + lost[s]
      OBVIOUS
    <2>1. /\ s \in Streams /\ Cardinality(Received(s)) \in Nat /\ lost[s] \in Nat
          /\ Len(events[s]) \in Nat
      BY ReceivedIsFinite, EventOfQueue DEF IInv, TypeOK
    <2>2. QED
      BY <1>1, <2>1 DEF IInv, EveryEventCounts
  <1>4. QED
    BY <1>2, <1>3 DEF LossesAreCounted, Received, Counts

-------------------------------------------------------------------------------
(* The theorems.                                                           *)

\* The inductive invariant holds in every state of the bus.
THEOREM InductiveInvariant == Spec => []IInv
  <1>1. Init => IInv
    BY InitIInv
  <1>2. IInv /\ [Next]_busVars => IInv'
    BY NextKeepsIInv
  <1>3. QED
    BY <1>1, <1>2, PTL DEF Spec

\* The indexes of the ring and the channels stay within their capacities.
THEOREM TypeCorrect == Spec => []TypeOK
  BY InductiveInvariant, PTL DEF IInv

\* Publish and Reset only touch channels of registered subscriptions.
THEOREM NoSendToClosedChannel == Spec => []ChannelsInUseAreOpen
  BY InductiveInvariant, PTL DEF IInv

\* The retry of publishTo always finds room.
THEOREM RetryFindsRoom == Spec => []EvictionMakesRoom
  BY InductiveInvariant, PTL DEF IInv

\* Every event is received, in the channel, or counted as dropped.
THEOREM NoSilentLoss == Spec => []LossesAreCounted
  <1>1. IInv => LossesAreCounted
    BY IInvImpliesLosses
  <1>2. QED
    BY <1>1, InductiveInvariant, PTL

\* A client gets the events in the order of publication, each at most once.
THEOREM OrderedDelivery == Spec => []StreamsAreOrdered
  <1>1. IInv => StreamsAreOrdered
    BY IInvImpliesOrder
  <1>2. QED
    BY <1>1, InductiveInvariant, PTL

-------------------------------------------------------------------------------
(* The bus implements the feed clients are promised.                       *)

\* What is still to be received by s of what was published.
Channel(s) == events[s] \o InFlight(s)

\* An event at the end of a queue, or none.
LEMMA ConcatAtMostOne ==
    ASSUME NEW q \in Seq(Events), NEW e \in Events
    PROVE  q \o <<>> = q /\ q \o <<e>> = Append(q, e)
  OBVIOUS

\* The first event of two queues is that of the first queue.
LEMMA ConcatTail ==
    ASSUME NEW q \in Seq(Events), NEW r \in Seq(Events), q # <<>>
    PROVE  /\ q \o r # <<>> /\ Head(q \o r) = Head(q)
           /\ Tail(q \o r) = Tail(q) \o r
  OBVIOUS

\* What is on its way to a stream.
LEMMA InFlightOf ==
    ASSUME IInv, NEW s \in Streams
    PROVE  /\ InFlight(s) = IF Visiting(s) THEN <<holder.event>> ELSE <<>>
           /\ Visiting(s) => holder.event \in Events
           /\ InFlight(s) \in Seq(Events) /\ Channel(s) \in Seq(Events)
           /\ Visiting(s) => Channel(s) = Append(events[s], holder.event)
           /\ ~Visiting(s) => Channel(s) = events[s]
  <1>1. /\ InFlight(s) = IF Visiting(s) THEN <<holder.event>> ELSE <<>>
        /\ Visiting(s) => holder.event \in Events
    BY HolderCases DEF IInv, InFlight, Visiting
  <1>2. events[s] \in Seq(Events) /\ <<>> \in Seq(Events)
        /\ \A e \in Events : <<e>> \in Seq(Events)
    BY DEF IInv, TypeOK
  <1>3. InFlight(s) \in Seq(Events)
    BY <1>1, <1>2
  <1>4. Channel(s) \in Seq(Events)
    BY <1>2, <1>3 DEF Channel
  <1>5. /\ Visiting(s) => Channel(s) = Append(events[s], holder.event)
        /\ ~Visiting(s) => Channel(s) = events[s]
    <2>1. ASSUME Visiting(s) PROVE Channel(s) = Append(events[s], holder.event)
      BY <1>1, <1>2, <2>1, ConcatAtMostOne DEF Channel
    <2>2. ASSUME ~Visiting(s) PROVE Channel(s) = events[s]
      <3>1. InFlight(s) = <<>>
        BY <1>1, <2>2
      <3>2. QED
        BY <1>2, <3>1 DEF Channel
    <2>3. QED
      BY <2>1, <2>2
  <1>6. QED
    BY <1>1, <1>3, <1>4, <1>5

\* The initial state of the bus is one of the feed.
LEMMA InitImplementsFeed == Init => Feed!Init
  <1> SUFFICES ASSUME Init PROVE Feed!Init
    OBVIOUS
  <1>1. historySnapshot = <<>>
    BY DEF Init, historySnapshot
  <1>2. \A s \in Streams : events[s] \o InFlight(s) = <<>>
    <2>1. \A s \in Streams : InFlight(s) = <<>> /\ events[s] = <<>>
      BY DEF Init, InFlight, Free
    <2>2. <<>> \o <<>> = <<>>
      OBVIOUS
    <2>3. QED
      BY <2>1, <2>2
  <1>3. Overflowing = {}
    BY DEF Init, Overflowing, Free
  <1>4. QED
    BY <1>1, <1>2, <1>3 DEF Init, Feed!Init

\* A step that changes nothing of what the feed shows.
LEMMA StutterOfFeed ==
    ASSUME UNCHANGED <<epoch, nextID, history, historyNext, historySize, subscribers, snapshot>>,
           \A s \in Streams : Channel(s)' = Channel(s),
           Overflowing' = Overflowing
    PROVE  UNCHANGED Feed!feedVars
  <1>1. historySnapshot' = historySnapshot
    BY DEF historySnapshot
  <1>2. [s \in Streams |-> events[s] \o InFlight(s)]' = [s \in Streams |-> events[s] \o InFlight(s)]
    BY DEF Channel
  <1>3. QED
    BY <1>1, <1>2 DEF Feed!feedVars

\* The snapshot is the latest events of the epoch.
SnapshotIsCurrent ==
    historySnapshot =
       [i \in 1 .. historySize |-> [epoch |-> epoch, id |-> nextID - historySize + i]]

\* It is in every state, so that it is after a step too.
LEMMA SnapshotHolds == IInv => SnapshotIsCurrent
  BY SnapshotIsLatest DEF IInv, SnapshotIsCurrent

\* Publish is the Publish of the feed: every channel has the event at its end.
LEMMA PublishImplementsFeed ==
    ASSUME IInv, IInv', Publish
    PROVE  Feed!Publish
  <1> DEFINE event == [epoch |-> epoch, id |-> nextID + 1]
  <1>1. /\ holder = Free /\ holder' = Publishing(event, subscribers, None, "offer")
        /\ nextID' = nextID + 1
        /\ historySize' = IF historySize < HistoryCapacity THEN historySize + 1 ELSE historySize
        /\ UNCHANGED <<epoch, subscribers, events, snapshot>>
    BY DEF Publish, appendHistory, streamVars
  <1>2. /\ nextID \in Nat /\ epoch \in Nat /\ event \in Events
        /\ historySize \in Nat /\ historySize <= HistoryCapacity /\ HistoryCapacity \in Nat
        /\ subscribers \subseteq Streams /\ None \notin Streams
    BY CapacityAssumption, NoneAssumption DEF IInv, TypeOK, Events
  <1>3. Overflowing = {} /\ Overflowing' = {}
    BY <1>1 DEF Overflowing, Free, Publishing
  <1>4. \A s \in Streams :
           /\ events[s] \in Seq(Events)
           /\ Channel(s) = events[s]
           /\ events[s] \o InFlight(s) = events[s]
           /\ (events[s] \o InFlight(s))' = IF s \in subscribers THEN Append(events[s], event)
                                                                 ELSE events[s]
    <2> TAKE s \in Streams
    <2>1. ~Visiting(s) /\ (Visiting(s)' <=> s \in subscribers) /\ holder'.event = event
      BY <1>1, <1>2 DEF Visiting, Free, Publishing
    <2>2. Channel(s) = events[s] /\ events[s] \in Seq(Events)
      BY <2>1, InFlightOf DEF IInv, TypeOK
    <2>3. InFlight(s)' = IF s \in subscribers THEN <<event>> ELSE <<>>
      BY <1>1, <1>2, <2>1 DEF InFlight, Visiting, Publishing
    <2>4. (events[s] \o InFlight(s))' = IF s \in subscribers THEN Append(events[s], event)
                                                             ELSE events[s]
      BY <1>1, <1>2, <2>2, <2>3, ConcatAtMostOne
    <2>5. QED
      BY <2>2, <2>4 DEF Channel
  <1>5. \A s \in subscribers :
           ~(events[s] \o InFlight(s) # <<>> /\ Head(events[s] \o InFlight(s)).epoch # epoch)
    <2>1. \A s \in Streams : ~Draining(s)
      BY <1>1 DEF Draining, Free
    <2>2. \A s \in Streams : events[s] # <<>> => Head(events[s]).epoch = epoch
      BY <1>4, <2>1, TailEvents DEF IInv, ChannelsAreCurrent, Counts
    <2>3. QED
      BY <1>2, <1>4, <2>2
  <1>6. historySnapshot' = Feed!KeepLast(HistoryCapacity, Append(historySnapshot, event))
    <2> DEFINE e(i) == [epoch |-> epoch, id |-> nextID - historySize + i]
               n == historySize
               n1 == historySize'
    <2>1. /\ historySnapshot = [i \in 1 .. n |-> e(i)]
          /\ \A i \in 1 .. n : e(i) \in Events
          /\ n \in Nat /\ n <= nextID
      BY <1>2, SnapshotHolds DEF SnapshotIsCurrent, Events, IInv, RingHoldsLatest
    <2>2. SnapshotIsCurrent'
      BY SnapshotHolds, PTL
    <2>3. historySnapshot' = [i \in 1 .. n1 |-> [epoch |-> epoch, id |-> nextID + 1 - n1 + i]]
      <3> DEFINE g == [i \in 1 .. n1 |-> [epoch |-> epoch', id |-> nextID' - n1 + i]]
                 h == [i \in 1 .. n1 |-> [epoch |-> epoch, id |-> nextID + 1 - n1 + i]]
      <3>1. historySnapshot' = g
        BY <2>2 DEF SnapshotIsCurrent
      <3>2. \A i \in 1 .. n1 : g[i] = h[i]
        <4>1. /\ nextID' = nextID + 1 /\ epoch' = epoch
              /\ nextID \in Nat /\ n1 \in Nat
          BY <1>1, <1>2
        <4>2. QED
          BY <4>1
      <3>3. g = h
        BY <3>2
      <3>4. QED
        BY <3>1, <3>3
    <2>4. Append(historySnapshot, event)
             = [i \in 1 .. n + 1 |-> IF i <= n THEN e(i) ELSE event]
      BY <2>1
    <2> DEFINE q == [i \in 1 .. n + 1 |-> [epoch |-> epoch, id |-> nextID - n + i]]
    <2>5. Append(historySnapshot, event) = q
      BY <1>2, <2>1, <2>4
    <2>6. q \in Seq(Events) /\ Len(q) = n + 1
      <3>1. q \in [1 .. n + 1 -> Events] /\ n + 1 \in Nat
        BY <1>2, <2>1 DEF Events
      <3> HIDE DEF q
      <3>2. QED
        BY <3>1, SeqDef
    <2>7. CASE n < HistoryCapacity
      BY <1>1, <1>2, <2>1, <2>3, <2>5, <2>6, <2>7 DEF Feed!KeepLast
    <2>8. CASE n = HistoryCapacity
      <3>1. Len(q) > HistoryCapacity /\ Len(q) - HistoryCapacity + 1 = 2
        BY <1>2, <2>1, <2>6, <2>8
      <3>2. SubSeq(q, 2, Len(q)) = [i \in 1 .. n |-> q[i + 1]]
        BY <2>1, <2>6
      <3>3. QED
        BY <1>1, <1>2, <2>1, <2>3, <2>5, <3>1, <3>2, <2>8 DEF Feed!KeepLast
    <2>9. QED
      BY <1>2, <2>7, <2>8
  <1>7. QED
    BY <1>1, <1>2, <1>3, <1>4, <1>5, <1>6 DEF Feed!Publish, Feed!Stale

\* What a step shows of the feed when it changes the channel of s only.
LEMMA ShowsChannel ==
    ASSUME NEW s \in Streams, NEW q,
           UNCHANGED <<epoch, nextID, history, historyNext, historySize, subscribers, snapshot>>,
           Channel(s)' = q, \A t \in Streams \ {s} : Channel(t)' = Channel(t)
    PROVE  /\ historySnapshot' = historySnapshot
           /\ [t \in Streams |-> events[t] \o InFlight(t)]'
                 = [[t \in Streams |-> events[t] \o InFlight(t)] EXCEPT ![s] = q]
  BY DEF historySnapshot, Channel

\* An offer that finds room only moves the event into the channel; one that does
\* not is the overflow of the feed.
LEMMA OfferImplementsFeed ==
    ASSUME IInv, NEW s \in Streams, Offer(s)
    PROVE  Feed!Overflow(s) \/ UNCHANGED Feed!feedVars
  <1> DEFINE rest == holder.todo \ {s}
             room == Len(events[s]) < SubscriberBuffer
  <1>1. /\ holder.kind = "publish" /\ holder.step = "offer" /\ s \in holder.todo
        /\ UNCHANGED <<epoch, nextID, history, historyNext, historySize, subscribers, snapshot>>
        /\ Overflowing = {}
    BY DEF Offer, ringVars, streamVars, Overflowing
  <1>2. /\ Visiting(s) /\ holder.event \in Events /\ holder.target = None /\ None \notin Streams
        /\ events[s] \in Seq(Events) /\ Channel(s) = Append(events[s], holder.event)
        /\ Len(events[s]) <= SubscriberBuffer /\ Len(events[s]) \in Nat /\ SubscriberBuffer \in Nat
        /\ events \in [Streams -> Seq(Events)]
        /\ Len(Channel(s)) = Len(events[s]) + 1
    <2>1. Visiting(s)
      BY <1>1 DEF Visiting
    <2>2. /\ events[s] \in Seq(Events) /\ Len(events[s]) <= SubscriberBuffer
          /\ SubscriberBuffer \in Nat /\ events \in [Streams -> Seq(Events)]
          /\ holder.target = None /\ None \notin Streams
      BY <1>1, CapacityAssumption, NoneAssumption DEF IInv, TypeOK, HolderKnows
    <2>3. holder.event \in Events /\ Channel(s) = Append(events[s], holder.event)
      BY <2>1, InFlightOf
    <2>4. QED
      BY <2>1, <2>2, <2>3, AppendEvent, EventOfQueue
  <1>3. CASE room
    <2>1. /\ events' = [events EXCEPT ![s] = Append(@, holder.event)]
          /\ holder' = Publishing(holder.event, rest, None, "offer")
      BY <1>3 DEF Offer
    <2>2. \A t \in Streams \ {s} : Channel(t)' = Channel(t)
      BY <1>1, <1>2, <2>1 DEF Channel, InFlight, Publishing
    <2>3. Channel(s)' = Channel(s)
      <3>1. InFlight(s)' = <<>>
        BY <1>2, <2>1 DEF InFlight, Publishing
      <3>2. events'[s] = Append(events[s], holder.event) /\ events'[s] \in Seq(Events)
        BY <1>2, <2>1, AppendEvent
      <3>3. QED
        BY <1>2, <3>1, <3>2, ConcatAtMostOne DEF Channel
    <2>4. Overflowing' = Overflowing
      BY <1>1, <2>1 DEF Overflowing, Publishing
    <2>5. QED
      BY <1>1, <2>2, <2>3, <2>4, StutterOfFeed
  <1>4. CASE ~room
    <2>1. /\ events' = events /\ holder' = Publishing(holder.event, rest, s, "evict")
      BY <1>4 DEF Offer
    <2>2. \A t \in Streams : Channel(t)' = Channel(t)
      BY <1>1, <1>2, <2>1 DEF Channel, InFlight, Publishing
    <2>3. Overflowing' = {s}
      BY <2>1 DEF Overflowing, Publishing
    <2>4. Len(Channel(s)) > SubscriberBuffer
      BY <1>2, <1>4
    <2>5. historySnapshot' = historySnapshot
          /\ [t \in Streams |-> events[t] \o InFlight(t)]'
                = [t \in Streams |-> events[t] \o InFlight(t)]
      BY <1>1, <2>2 DEF historySnapshot, Channel
    <2>6. QED
      BY <1>1, <2>3, <2>4, <2>5 DEF Feed!Overflow, Channel
  <1>5. QED
    BY <1>3, <1>4

\* An eviction loses the oldest event, unless the stream received some meanwhile.
LEMMA EvictImplementsFeed ==
    ASSUME IInv, NEW s \in Streams, Evict(s)
    PROVE  Feed!Lose(s) \/ Feed!CatchUp(s)
  <1> DEFINE live == [t \in Streams |-> events[t] \o InFlight(t)]
  <1>1. /\ holder.kind = "publish" /\ holder.step = "evict" /\ holder.target = s
        /\ UNCHANGED <<epoch, nextID, history, historyNext, historySize, subscribers, snapshot>>
        /\ Overflowing = {s}
        /\ events[s] \in Seq(Events) /\ events \in [Streams -> Seq(Events)] /\ holder \in Holders
    BY DEF Evict, ringVars, streamVars, Overflowing, IInv, TypeOK
  <1>2. /\ holder'.kind = "publish" /\ holder'.event = holder.event
        /\ holder'.todo = holder.todo /\ holder'.target = s
        /\ holder'.step \in {"retry", "retry_dropped"}
    <2>1. holder \in [kind : {"publish"}, event : Events, todo : SUBSET Streams,
                      target : Streams \cup {None},
                      step : {"offer", "evict", "retry", "retry_dropped"}]
      BY <1>1 DEF Holders
    <2>2. \/ holder' = [holder EXCEPT !.step = "retry"]
          \/ holder' = [holder EXCEPT !.step = "retry_dropped"]
      BY DEF Evict
    <2>3. QED
      BY <1>1, <2>1, <2>2
  <1>3. /\ Overflowing' = {} /\ \A t \in Streams : InFlight(t)' = InFlight(t)
    BY <1>1, <1>2 DEF Overflowing, InFlight
  <1>4. CASE events[s] # <<>>
    <2>1. events' = [events EXCEPT ![s] = Tail(@)]
      BY <1>4 DEF Evict
    <2>2. InFlight(s) \in Seq(Events)
      BY InFlightOf
    <2>3. Channel(s) # <<>> /\ Tail(Channel(s)) = Tail(events[s]) \o InFlight(s)
      BY <1>1, <1>4, <2>2, ConcatTail DEF Channel
    <2>4. Channel(s)' = Tail(Channel(s)) /\ \A t \in Streams \ {s} : Channel(t)' = Channel(t)
      BY <1>1, <1>3, <2>1, <2>3 DEF Channel
    <2>5. historySnapshot' = historySnapshot /\ live' = [live EXCEPT ![s] = Tail(Channel(s))]
      BY <1>1, <2>4, ShowsChannel
    <2>6. QED
      BY <1>1, <1>3, <2>3, <2>5 DEF Feed!Lose, Channel
  <1>5. CASE events[s] = <<>>
    <2>1. events' = events
      BY <1>5 DEF Evict
    <2>2. historySnapshot' = historySnapshot /\ live' = live
      BY <1>1, <1>3, <2>1 DEF historySnapshot
    <2>3. QED
      BY <1>1, <1>3, <2>2 DEF Feed!CatchUp
  <1>6. QED
    BY <1>4, <1>5

\* A retry only moves the event into the channel.
LEMMA RetryImplementsFeed ==
    ASSUME IInv, NEW s \in Streams, Retry(s)
    PROVE  UNCHANGED Feed!feedVars
  <1>1. /\ holder.kind = "publish" /\ holder.target = s /\ holder.step # "evict"
        /\ Len(events[s]) < SubscriberBuffer
        /\ events' = [events EXCEPT ![s] = Append(@, holder.event)]
        /\ holder' = Publishing(holder.event, holder.todo, None, "offer")
        /\ UNCHANGED <<epoch, nextID, history, historyNext, historySize, subscribers, snapshot>>
    BY DEF Retry, ringVars, streamVars, IInv, EvictionMakesRoom
  <1>2. /\ events[s] \in Seq(Events) /\ events \in [Streams -> Seq(Events)]
        /\ holder.event \in Events /\ None \notin Streams /\ s \notin holder.todo
        /\ Channel(s) = Append(events[s], holder.event)
    BY <1>1, InFlightOf, NoneAssumption, HolderCases DEF IInv, TypeOK, HolderKnows, Visiting
  <1>3. Channel(s)' = Channel(s)
    <2>1. InFlight(s)' = <<>>
      BY <1>1, <1>2 DEF InFlight, Publishing
    <2>2. events'[s] = Append(events[s], holder.event) /\ events'[s] \in Seq(Events)
      BY <1>1, <1>2, AppendEvent
    <2>3. QED
      BY <1>2, <2>1, <2>2, ConcatAtMostOne DEF Channel
  <1>4. \A t \in Streams \ {s} : Channel(t)' = Channel(t)
    BY <1>1, <1>2 DEF Channel, InFlight, Publishing
  <1>5. Overflowing' = Overflowing
    BY <1>1 DEF Overflowing, Publishing
  <1>6. QED
    BY <1>1, <1>3, <1>4, <1>5, StutterOfFeed

\* A reset forgets what was published; the channels still hold what they held.
LEMMA ResetImplementsFeed ==
    ASSUME IInv, Reset
    PROVE  Feed!Reset
  <1>1. /\ holder = Free /\ holder' = Resetting(subscribers)
        /\ nextID' = 0 /\ historySize' = 0 /\ epoch' = epoch + 1
        /\ UNCHANGED <<subscribers, events, snapshot>>
    BY DEF Reset, streamVars
  <1>2. historySnapshot' = <<>>
    BY <1>1 DEF historySnapshot
  <1>3. \A s \in Streams : InFlight(s)' = InFlight(s)
    BY <1>1 DEF InFlight, Free, Resetting
  <1>4. Overflowing' = Overflowing
    BY <1>1 DEF Overflowing, Free, Resetting
  <1>5. QED
    BY <1>1, <1>2, <1>3, <1>4 DEF Feed!Reset

\* What a reset drains is of an earlier epoch.
LEMMA DrainImplementsFeed ==
    ASSUME IInv, NEW s \in Streams, Drain(s)
    PROVE  Feed!Discard(s) \/ UNCHANGED Feed!feedVars
  <1> DEFINE live == [t \in Streams |-> events[t] \o InFlight(t)]
  <1>1. /\ holder.kind = "reset" /\ holder'.kind = "reset"
        /\ UNCHANGED <<epoch, nextID, history, historyNext, historySize, subscribers, snapshot>>
        /\ events[s] \in Seq(Events) /\ events \in [Streams -> Seq(Events)]
        /\ nextID = 0 /\ epoch \in Nat
    BY DEF Drain, ringVars, streamVars, IInv, TypeOK, HolderKnows, Resetting
  <1>2. /\ Overflowing' = Overflowing
        /\ \A t \in Streams : InFlight(t)' = <<>> /\ InFlight(t) = <<>> /\ ~Visiting(t)
    BY <1>1 DEF Overflowing, InFlight, Visiting
  <1>3. CASE events[s] # <<>>
    <2>1. events' = [events EXCEPT ![s] = Tail(@)]
      BY <1>3 DEF Drain
    <2>2. /\ Channel(s) = events[s] /\ <<>> \in Seq(Events)
          /\ Tail(events[s]) \in Seq(Events) /\ Head(events[s]) \in Events
          /\ 1 \in DOMAIN events[s] /\ Head(events[s]) = events[s][1]
      BY <1>1, <1>2, <1>3, InFlightOf, TailEvents, EmptyIsOrdered
    <2>3. Channel(s)' = Tail(Channel(s)) /\ \A t \in Streams \ {s} : Channel(t)' = Channel(t)
      <3>1. Channel(s)' = Tail(events[s]) \o <<>>
        BY <1>1, <1>2, <2>1 DEF Channel
      <3>2. Tail(events[s]) \o <<>> = Tail(events[s])
        BY <2>2
      <3>3. QED
        BY <1>1, <1>2, <2>1, <2>2, <3>1, <3>2 DEF Channel
    <2>4. Head(Channel(s)).epoch # epoch
      <3>1. Precedes(events[s][1], [epoch |-> epoch, id |-> 1])
        BY <1>1, <1>2, <2>2 DEF IInv, NothingIsAhead, IsBefore, NextFor
      <3>2. events[s][1].epoch \in Nat /\ events[s][1].id \in Nat \ {0}
        BY <2>2 DEF Events
      <3>3. QED
        BY <1>1, <2>2, <3>1, <3>2 DEF Precedes
    <2>5. historySnapshot' = historySnapshot /\ live' = [live EXCEPT ![s] = Tail(Channel(s))]
      BY <1>1, <2>3, ShowsChannel
    <2>6. Channel(s) # <<>>
      BY <1>3, <2>2
    <2>7. QED
      BY <1>1, <1>2, <2>4, <2>5, <2>6 DEF Feed!Discard, Feed!Stale, Channel
  <1>4. CASE events[s] = <<>>
    <2>1. events' = events
      BY <1>4 DEF Drain
    <2>2. QED
      BY <1>1, <1>2, <2>1, StutterOfFeed DEF Channel
  <1>5. QED
    BY <1>3, <1>4

\* No event is on its way when the mutex is released.
LEMMA UnlockImplementsFeed ==
    ASSUME IInv, Unlock
    PROVE  UNCHANGED Feed!feedVars
  <1>1. /\ holder' = Free /\ holder.todo = {} /\ holder # Free
        /\ holder.kind = "publish" => holder.step = "offer" /\ holder.target = None
        /\ None \notin Streams
        /\ UNCHANGED <<epoch, nextID, history, historyNext, historySize, subscribers, snapshot,
                       events>>
    BY NoneAssumption DEF Unlock, ringVars, streamVars, IInv, HolderKnows
  <1>2. \A s \in Streams : InFlight(s) = <<>> /\ InFlight(s)' = <<>>
    BY <1>1 DEF InFlight, Free
  <1>3. Overflowing' = Overflowing
    BY <1>1 DEF Overflowing, Free
  <1>4. QED
    BY <1>1, <1>2, <1>3, StutterOfFeed DEF Channel

\* The steps of a stream that its client does not see, and the shutdown.
LEMMA QuietImplementsFeed ==
    ASSUME IInv,
           \/ BeginShutdown
           \/ UNCHANGED busVars
           \/ \E s \in Streams : Disconnect(s) \/ Stop(s)
    PROVE  UNCHANGED Feed!feedVars
  <1>1. UNCHANGED <<epoch, nextID, history, historyNext, historySize, subscribers, snapshot,
                    events, holder>>
    BY DEF BeginShutdown, busVars, ringVars, streamVars, Disconnect, Stop, Leave
  <1>2. (\A s \in Streams : Channel(s)' = Channel(s)) /\ Overflowing' = Overflowing
    BY <1>1 DEF Channel, InFlight, Overflowing
  <1>3. QED
    BY <1>1, <1>2, StutterOfFeed

\* The steps of a stream that its client sees.
LEMMA StreamImplementsFeed ==
    ASSUME IInv, NEW s \in Streams, Subscribe(s) \/ Replay(s) \/ Receive(s) \/ Close(s)
    PROVE  \/ Feed!Subscribe(s) \/ Feed!ReceivePast(s) \/ Feed!Receive(s) \/ Feed!Close(s)
           \/ UNCHANGED Feed!feedVars
  <1> DEFINE live == [t \in Streams |-> events[t] \o InFlight(t)]
  <1>1. /\ UNCHANGED <<epoch, nextID, history, historyNext, historySize, holder>>
        /\ historySnapshot' = historySnapshot /\ Overflowing' = Overflowing
        /\ \A t \in Streams : InFlight(t)' = InFlight(t) /\ InFlight(t) \in Seq(Events)
        /\ events \in [Streams -> Seq(Events)] /\ snapshot \in [Streams -> Seq(Events)]
    <2>1. UNCHANGED <<epoch, nextID, history, historyNext, historySize, holder>>
      BY DEF Subscribe, Replay, Receive, Close, ringVars
    <2>2. QED
      BY <2>1, InFlightOf DEF historySnapshot, Overflowing, InFlight, IInv, TypeOK
  <1>2. CASE Subscribe(s)
    <2>1. /\ s \notin subscribers /\ subscribers' = subscribers \cup {s} /\ events' = events
          /\ snapshot' = [snapshot EXCEPT ![s] = historySnapshot]
      BY <1>2 DEF Subscribe, IInv, ChannelsInUseAreOpen
    <2>2. live' = live
      BY <1>1, <2>1
    <2>3. QED
      BY <1>1, <2>1, <2>2 DEF Feed!Subscribe
  <1>3. CASE Replay(s)
    <2>1. subscribers' = subscribers /\ events' = events
      BY <1>3 DEF Replay
    <2>2. live' = live
      BY <1>1, <2>1
    <2>3. CASE snapshot[s] # <<>>
      <3>1. snapshot' = [snapshot EXCEPT ![s] = Tail(@)]
        BY <1>3, <2>3 DEF Replay
      <3>2. QED
        BY <1>1, <2>1, <2>2, <2>3, <3>1 DEF Feed!ReceivePast
    <2>4. CASE snapshot[s] = <<>>
      <3>1. snapshot' = snapshot
        BY <1>3, <2>4 DEF Replay
      <3>2. QED
        BY <1>1, <2>1, <2>2, <3>1 DEF Feed!feedVars
    <2>5. QED
      BY <2>3, <2>4
  <1>4. CASE Receive(s)
    <2>1. /\ subscribers' = subscribers /\ snapshot' = snapshot /\ snapshot[s] = <<>>
          /\ events[s] # <<>> /\ events' = [events EXCEPT ![s] = Tail(@)]
      BY <1>4 DEF Receive, IInv, IdleStreamsAreEmpty
    <2>2. Channel(s) # <<>> /\ Tail(Channel(s)) = Tail(events[s]) \o InFlight(s)
      BY <1>1, <2>1, ConcatTail DEF Channel
    <2>3. Channel(s)' = Tail(Channel(s)) /\ \A t \in Streams \ {s} : Channel(t)' = Channel(t)
      BY <1>1, <2>1, <2>2 DEF Channel
    <2>4. live' = [live EXCEPT ![s] = Tail(Channel(s))]
      BY <1>1, <2>1, <2>3, ShowsChannel
    <2>5. QED
      BY <1>1, <2>1, <2>2, <2>4 DEF Feed!Receive, Channel
  <1>5. CASE Close(s)
    <2>1. /\ holder = Free /\ s \in subscribers /\ subscribers' = subscribers \ {s}
          /\ events' = [events EXCEPT ![s] = <<>>]
          /\ snapshot' = [snapshot EXCEPT ![s] = <<>>]
      BY <1>5 DEF Close, IInv, ChannelsInUseAreOpen
    <2>2. Overflowing = {} /\ \A t \in Streams : InFlight(t) = <<>>
      BY <2>1 DEF Overflowing, InFlight, Free
    <2>3. <<>> \o <<>> = <<>>
      OBVIOUS
    <2>4. live' = [live EXCEPT ![s] = <<>>]
      BY <1>1, <2>1, <2>2, <2>3
    <2>5. QED
      BY <1>1, <2>1, <2>2, <2>4 DEF Feed!Close
  <1>6. QED
    BY <1>2, <1>3, <1>4, <1>5

\* The promise of the feed holds of the bus: what a client is sent is what it
\* would be sent if publishing reached every client at once, without a mutex.
THEOREM BusImplementsFeed == Spec => ImplementsEventFeed
  <1>1. Init => Feed!Init
    BY InitImplementsFeed
  <1>2. IInv /\ IInv' /\ [Next]_busVars => [Feed!Next]_(Feed!feedVars)
    <2> SUFFICES ASSUME IInv, IInv', [Next]_busVars
                 PROVE  [Feed!Next]_(Feed!feedVars)
      OBVIOUS
    <2>1. CASE Publish
      BY <2>1, PublishImplementsFeed DEF Feed!Next
    <2>2. CASE Reset
      BY <2>2, ResetImplementsFeed DEF Feed!Next
    <2>3. CASE HoldMutex
      BY <2>3, UnlockImplementsFeed, OfferImplementsFeed, EvictImplementsFeed,
         RetryImplementsFeed, DrainImplementsFeed
         DEF HoldMutex, Feed!Next
    <2>4. CASE \/ BeginShutdown \/ UNCHANGED busVars
               \/ \E s \in Streams : Disconnect(s) \/ Stop(s)
      BY <2>4, QuietImplementsFeed
    <2>5. ASSUME NEW s \in Streams, Subscribe(s) \/ Replay(s) \/ Receive(s) \/ Close(s)
          PROVE  [Feed!Next]_(Feed!feedVars)
      BY <2>5, StreamImplementsFeed DEF Feed!Next
    <2>6. QED
      BY <2>1, <2>2, <2>3, <2>4, <2>5 DEF Next
  <1>3. QED
    BY <1>1, <1>2, InductiveInvariant, PTL DEF Spec, ImplementsEventFeed, Feed!Spec

================================================================================
