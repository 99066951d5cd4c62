------------------------- MODULE ConfigWatcher_proofs -------------------------
(***************************************************************************)
(* Proofs about ConfigWatcher, for any contents of the file and any number *)
(* of saves.  The inductive invariant adds what reload holds: the version  *)
(* it read last, which is not older than the one in force.                 *)
(***************************************************************************)
EXTENDS ConfigWatcher, TLAPS

ReloadIsCurrent ==
    /\ active <= seen
    /\ pc = "apply" => candidate.version = seen

IInv == TypeOK /\ NoSaveIsForgotten /\ ReloadIsCurrent

-------------------------------------------------------------------------------
\* A queue that gets a change keeps those it had, and has the new one.
LEMMA AppendKeeps ==
    ASSUME NEW S, NEW q \in Seq(S), NEW x \in S
    PROVE  /\ Append(q, x) \in Seq(S)
           /\ Len(q) + 1 \in DOMAIN Append(q, x)
           /\ Append(q, x)[Len(q) + 1] = x
           /\ \A i \in DOMAIN q : i \in DOMAIN Append(q, x) /\ Append(q, x)[i] = q[i]
  OBVIOUS

\* A queue that loses its head keeps the others.
LEMMA TailKeeps ==
    ASSUME NEW S, NEW q \in Seq(S), q # <<>>
    PROVE  /\ Tail(q) \in Seq(S)
           /\ Head(q) \in S
           /\ \A i \in DOMAIN q :
                 \/ q[i] = Head(q)
                 \/ i - 1 \in DOMAIN Tail(q) /\ Tail(q)[i - 1] = q[i]
  OBVIOUS

\* The program starts with the version it has read.
LEMMA InitIInv == Init => IInv
  <1> SUFFICES ASSUME Init PROVE IInv
    OBVIOUS
  <1>1. file \in Files /\ file.version = 0 /\ None \notin Files
    BY ContentsAssumption DEF Init, Files
  <1>2. TypeOK
    <2>1. queue \in Seq({"relevant", "other"})
      BY DEF Init
    <2>2. 0 \in 0 .. file.version
      BY <1>1
    <2>3. QED
      BY <1>1, <2>1, <2>2 DEF Init, TypeOK
  <1>3. NoSaveIsForgotten /\ ReloadIsCurrent
    BY DEF Init, NoSaveIsForgotten, ReloadIsCurrent, Watched
  <1>4. QED
    BY <1>2, <1>3 DEF IInv

\* A save while the directory is watched puts its change in the queue.
LEMMA SavePreserves == ASSUME IInv, Save PROVE IInv'
  <1>1. PICK c \in Contents : file' = [content |-> c, version |-> file.version + 1]
    BY DEF Save
  <1>2. /\ file.version \in Nat
        /\ file' \in Files /\ file'.version = file.version + 1
    BY <1>1 DEF IInv, TypeOK, Files
  <1>3. queue \in Seq({"relevant", "other"})
    BY DEF IInv, TypeOK
  <1>4. /\ queue' \in Seq({"relevant", "other"})
        /\ Watched => \E i \in DOMAIN queue' : queue'[i] = "relevant"
    BY <1>3, AppendKeeps DEF Save, Notify
  <1>5. QED
    BY <1>2, <1>4 DEF Save, IInv, TypeOK, NoSaveIsForgotten, ReloadIsCurrent, Watched

\* A change of another file leaves the changes of this one in the queue.
LEMMA TouchPreserves == ASSUME IInv, Touch PROVE IInv'
  <1>1. /\ queue \in Seq({"relevant", "other"})
        /\ queue' = Append(queue, "other")
    BY DEF IInv, TypeOK, Touch, Notify
  <1>2. /\ queue' \in Seq({"relevant", "other"})
        /\ \A i \in DOMAIN queue : i \in DOMAIN queue' /\ queue'[i] = queue[i]
    BY <1>1, AppendKeeps
  <1>3. QED
    BY <1>2 DEF Touch, IInv, TypeOK, NoSaveIsForgotten, ReloadIsCurrent, Watched

\* A relevant change that leaves the queue starts the timer.
LEMMA HandleEventPreserves == ASSUME IInv, HandleEvent PROVE IInv'
  <1>1. queue \in Seq({"relevant", "other"}) /\ queue # <<>> /\ queue' = Tail(queue)
    BY DEF IInv, TypeOK, HandleEvent
  <1>2. /\ queue' \in Seq({"relevant", "other"})
        /\ \A i \in DOMAIN queue :
              \/ queue[i] = Head(queue)
              \/ i - 1 \in DOMAIN queue' /\ queue'[i - 1] = queue[i]
    BY <1>1, TailKeeps
  <1>3. CASE Head(queue) = "relevant"
    BY <1>2, <1>3 DEF HandleEvent, IInv, TypeOK, NoSaveIsForgotten, ReloadIsCurrent, Watched
  <1>4. CASE Head(queue) # "relevant"
    <2>1. (\E i \in DOMAIN queue : queue[i] = "relevant")
             => \E i \in DOMAIN queue' : queue'[i] = "relevant"
      BY <1>2, <1>4
    <2>2. UNCHANGED <<timer, armed>>
      BY <1>4 DEF HandleEvent
    <2>3. QED
      BY <1>2, <2>1, <2>2
      DEF HandleEvent, IInv, TypeOK, NoSaveIsForgotten, ReloadIsCurrent, Watched
  <1>5. QED
    BY <1>3, <1>4

\* Reload reads the latest version, which makes up for every change before.
LEMMA LoadPreserves == ASSUME IInv, Load PROVE IInv'
  <1>1. file \in Files /\ file.version \in Nat /\ None \notin Files
    BY ContentsAssumption DEF IInv, TypeOK, Files
  <1>2. /\ candidate' = file /\ seen' = file.version /\ pc' = "apply"
        /\ UNCHANGED <<file, queue, timer, armed, active, cancelled, blind>>
        /\ pc = "load"
    BY DEF Load
  <1>3. active \in 0 .. file.version /\ blind \in 0 .. file.version
    BY DEF IInv, TypeOK
  <1>4. TypeOK'
    BY <1>1, <1>2 DEF IInv, TypeOK
  <1>5. NoSaveIsForgotten' /\ ReloadIsCurrent'
    BY <1>1, <1>2, <1>3 DEF NoSaveIsForgotten, ReloadIsCurrent
  <1>6. QED
    BY <1>4, <1>5 DEF IInv

\* What reload applies is the version it read.
LEMMA ApplyPreserves == ASSUME IInv, Apply PROVE IInv'
  <1>1. /\ candidate.version = seen
        /\ seen \in 0 .. file.version /\ active \in 0 .. file.version
        /\ active <= seen
    BY DEF Apply, IInv, TypeOK, ReloadIsCurrent
  <1>2. active' \in 0 .. file.version /\ active' <= seen
    BY <1>1 DEF Apply
  <1>3. QED
    BY <1>2 DEF Apply, IInv, TypeOK, NoSaveIsForgotten, ReloadIsCurrent, Watched

\* Every step preserves the invariant.
LEMMA NextPreserves == IInv /\ [Next]_watcherVars => IInv'
  <1> SUFFICES ASSUME IInv, [Next]_watcherVars PROVE IInv'
    OBVIOUS
  <1>1. CASE Expire
    <2>1. pc # "returned" => armed
      BY <1>1, Zenon DEF Expire, IInv, TypeOK
    <2>2. TypeOK'
      <3>1. timer' = "expired" /\ UNCHANGED <<file, pc, queue, armed, candidate,
                                              active, cancelled, blind, seen>>
        BY <1>1 DEF Expire
      <3>2. pc' # "returned" => (armed' <=> timer' # "stopped")
        BY <2>1, <3>1, Zenon
      <3>3. QED
        BY <3>1, <3>2 DEF IInv, TypeOK
    <2>3. NoSaveIsForgotten' /\ ReloadIsCurrent'
      BY <1>1 DEF Expire, IInv, NoSaveIsForgotten, ReloadIsCurrent, Watched
    <2>4. QED
      BY <2>2, <2>3 DEF IInv
  <1>2. CASE Cancel
    BY <1>2 DEF Cancel, IInv, TypeOK, NoSaveIsForgotten, ReloadIsCurrent, Watched
  <1>3. CASE NewWatcher
    <2>1. file.version \in Nat
      BY DEF IInv, TypeOK, Files
    <2>2. QED
      BY <1>3, <2>1
      DEF NewWatcher, IInv, TypeOK, NoSaveIsForgotten, ReloadIsCurrent, Watched
  <1>4. CASE Fire
    BY <1>4 DEF Fire, IInv, TypeOK, NoSaveIsForgotten, ReloadIsCurrent, Watched
  <1>5. CASE Return
    BY <1>5 DEF Return, IInv, TypeOK, NoSaveIsForgotten, ReloadIsCurrent, Watched
  <1>6. CASE UNCHANGED watcherVars
    BY <1>6 DEF watcherVars, IInv, TypeOK, NoSaveIsForgotten, ReloadIsCurrent, Watched
  <1>7. QED
    BY <1>1, <1>2, <1>3, <1>4, <1>5, <1>6, SavePreserves, TouchPreserves,
       HandleEventPreserves, LoadPreserves, ApplyPreserves DEF Next

\* The inductive invariant holds.
THEOREM Invariance == Spec => []IInv
  BY InitIInv, NextPreserves, PTL DEF Spec

\* Every variable has its type; timer and channel go together.
THEOREM TypeCorrect == Spec => []TypeOK
  BY Invariance, PTL DEF IInv

\* A save made while the directory is watched leads to a reload that reads it.
THEOREM NoSaveIsEverForgotten == Spec => []NoSaveIsForgotten
  BY Invariance, PTL DEF IInv

\* What comes into force is valid and newer than what it replaces.
THEOREM LastValidConfigStaysActive == Spec => OnlyNewerValidEditsAreApplied
  <1> DEFINE A == active' # active =>
                    /\ active' > active
                    /\ candidate # None /\ candidate.version = active'
                    /\ Valid(candidate.content)
                    /\ pc # "returned"
  <1>1. IInv /\ [Next]_watcherVars => [A]_watcherVars
    <2> SUFFICES ASSUME IInv, Next, active' # active PROVE A
      BY DEF watcherVars
    <2>1. Apply
      BY DEF Next, Save, Touch, Expire, Cancel, NewWatcher, HandleEvent, Fire, Load, Return
    <2>2. /\ Valid(candidate.content) /\ active' = candidate.version
          /\ candidate.version = seen /\ active <= seen
          /\ seen \in Int /\ active \in Int
          /\ candidate # None /\ pc = "apply"
      BY <2>1 DEF Apply, IInv, TypeOK, ReloadIsCurrent
    <2>3. QED
      BY <2>2
  <1>2. QED
    BY <1>1, Invariance, PTL DEF Spec, OnlyNewerValidEditsAreApplied

==============================================================================
