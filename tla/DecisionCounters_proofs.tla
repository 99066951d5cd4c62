----------------------- MODULE DecisionCounters_proofs -----------------------
(***************************************************************************)
(* Proofs about DecisionCounters, for any keys, requests and bounds.       *)
(*                                                                         *)
(* The argument: at most one counter of a key is born between two restarts *)
(* of it (EpochsOfCounters), and what a request holds was born after the   *)
(* last restart before it arrived (EpochsOfRequests).                      *)
(***************************************************************************)
EXTENDS DecisionCounters, TLAPS

\* The counters of a key, in the order of the restarts they were born after.
EpochsOfCounters ==
    \A k \in Keys :
        /\ DOMAIN born[k] = DOMAIN counters[k]
        /\ \A c \in DOMAIN born[k] :
              /\ born[k][c] \in Nat
              /\ born[k][c] <= restarts[k]
              /\ k \notin stored => born[k][c] < restarts[k]
        /\ \A c, d \in DOMAIN born[k] : c < d => born[k][c] < born[k][d]
        /\ k \in stored => /\ Len(counters[k]) \in DOMAIN counters[k]
                           /\ born[k][Len(counters[k])] = restarts[k]

\* A request inside nextIndex.
EpochsOfRequests ==
    \A r \in Requests :
        /\ at[r] # "idle" => since[r] <= restarts[key[r]]
        /\ at[r] = "add" => since[r] <= born[key[r]][held[r]]

\* The indexes handed out.
EpochsOfDraws ==
    \A i \in DOMAIN draws :
        /\ draws[i].counter \in DOMAIN counters[draws[i].key]
        /\ draws[i].index < counters[draws[i].key][draws[i].counter]
        /\ draws[i].since <= born[draws[i].key][draws[i].counter]
        /\ born[draws[i].key][draws[i].counter] <= draws[i].until
        /\ draws[i].until <= restarts[draws[i].key]

OrderOfDraws ==
    \A i, j \in DOMAIN draws :
        i < j /\ draws[i].key = draws[j].key =>
            /\ draws[i].until <= draws[j].until
            /\ draws[i].counter = draws[j].counter => draws[i].index < draws[j].index

IInv ==
    /\ TypeOK
    /\ EpochsOfCounters
    /\ EpochsOfRequests
    /\ EpochsOfDraws
    /\ OrderOfDraws

-------------------------------------------------------------------------------
(* Sequences.                                                              *)

\* The elements of a sequence are at the positions of its domain.
LEMMA SeqElement ==
    ASSUME NEW S, NEW s \in Seq(S)
    PROVE  /\ Len(s) \in Nat
           /\ DOMAIN s = 1 .. Len(s)
           /\ \A i \in DOMAIN s : i \in Nat /\ 1 <= i /\ i <= Len(s) /\ s[i] \in S
  OBVIOUS

\* Append adds one position, after all the others.
LEMMA AppendElement ==
    \A s \in Seq(Nat), e \in Nat :
        /\ Append(s, e) \in Seq(Nat)
        /\ Len(Append(s, e)) = Len(s) + 1
        /\ DOMAIN Append(s, e) = DOMAIN s \cup {Len(s) + 1}
        /\ Append(s, e)[Len(s) + 1] = e
        /\ \A i \in DOMAIN s : i < Len(s) + 1 /\ Append(s, e)[i] = s[i]
        /\ Len(s) + 1 \notin DOMAIN s
  OBVIOUS

\* A sequence of draws gains one.
LEMMA AppendDraw ==
    \A s \in Seq(Draws), e \in Draws :
        /\ Append(s, e) \in Seq(Draws)
        /\ DOMAIN Append(s, e) = DOMAIN s \cup {Len(s) + 1}
        /\ Append(s, e)[Len(s) + 1] = e
        /\ \A i \in DOMAIN s : i < Len(s) + 1 /\ Append(s, e)[i] = s[i]
        /\ Len(s) + 1 \notin DOMAIN s
  OBVIOUS

\* Replacing an element keeps a sequence a sequence.
LEMMA ReplaceElement ==
    \A s \in Seq(Nat) : \A i \in DOMAIN s, e \in Nat :
        /\ [s EXCEPT ![i] = e] \in Seq(Nat)
        /\ DOMAIN [s EXCEPT ![i] = e] = DOMAIN s
        /\ Len([s EXCEPT ![i] = e]) = Len(s)
        /\ [s EXCEPT ![i] = e][i] = e
        /\ \A j \in DOMAIN s : j # i => [s EXCEPT ![i] = e][j] = s[j]
  OBVIOUS

\* A draw has the types of its fields.
LEMMA DrawsAreTyped ==
    ASSUME TypeOK, NEW i \in DOMAIN draws
    PROVE  /\ draws[i].key \in Keys
           /\ draws[i].counter \in Nat
           /\ draws[i].index \in Nat
           /\ draws[i].since \in Nat
           /\ draws[i].until \in Nat
  <1>1. draws[i] \in Draws
    BY SeqElement DEF TypeOK
  <1>2. QED
    BY <1>1 DEF Draws

\* A counter and the restart it was born after are natural numbers.
LEMMA CountersAreTyped ==
    ASSUME TypeOK, NEW k \in Keys
    PROVE  /\ counters[k] \in Seq(Nat)
           /\ born[k] \in Seq(Nat)
           /\ restarts[k] \in Nat
           /\ Len(counters[k]) \in Nat
           /\ \A c \in DOMAIN counters[k] : counters[k][c] \in Nat /\ c \in Nat
           /\ \A c \in DOMAIN born[k] : born[k][c] \in Nat /\ c \in Nat
  <1>1. counters[k] \in Seq(Nat) /\ born[k] \in Seq(Nat) /\ restarts[k] \in Nat
    BY DEF TypeOK
  <1>2. QED
    BY <1>1, SeqElement

-------------------------------------------------------------------------------
\* There are no counters and no draws at first.
LEMMA InitIInv == Init => IInv
  <1> SUFFICES ASSUME Init PROVE IInv
    OBVIOUS
  <1>1. TypeOK
    BY DEF Init, TypeOK, Draws
  <1>2. QED
    BY <1>1 DEF Init, IInv, EpochsOfCounters, EpochsOfRequests, EpochsOfDraws, OrderOfDraws

\* A call of nextIndex notes the restarts so far.
LEMMA CallPreserves ==
    ASSUME IInv, NEW r \in Requests, NEW k \in Keys, nextIndex(r, k)
    PROVE  IInv'
  <1>1. TypeOK'
    BY DEF nextIndex, IInv, TypeOK
  <1>2. EpochsOfRequests'
    BY DEF nextIndex, IInv, TypeOK, EpochsOfRequests
  <1>3. EpochsOfCounters' /\ EpochsOfDraws' /\ OrderOfDraws'
    BY DEF nextIndex, IInv, EpochsOfCounters, EpochsOfDraws, OrderOfDraws
  <1>4. QED
    BY <1>1, <1>2, <1>3 DEF IInv

\* Load finds the last counter, made after the last restart.
LEMMA LoadPreserves ==
    ASSUME IInv, NEW r \in Requests, Load(r)
    PROVE  IInv'
  <1>1. key[r] \in Keys
    BY DEF Load, IInv, TypeOK
  <1>2. key[r] \in stored => /\ Len(counters[key[r]]) \in DOMAIN counters[key[r]]
                             /\ born[key[r]][Len(counters[key[r]])] = restarts[key[r]]
    BY <1>1 DEF IInv, EpochsOfCounters
  <1>3. TypeOK'
    <2>1. held' \in [Requests -> Nat]
      BY <1>1, CountersAreTyped DEF Load, IInv, TypeOK
    <2>2. \A q \in Requests :
             /\ at'[q] # "idle" => key[q] \in Keys
             /\ at'[q] = "add" => held'[q] \in DOMAIN counters[key[q]]
      BY <1>1, <1>2 DEF Load, IInv, TypeOK
    <2>3. QED
      BY <2>1, <2>2 DEF Load, IInv, TypeOK
  <1>4. EpochsOfRequests'
    BY <1>1, <1>2 DEF Load, IInv, TypeOK, EpochsOfRequests
  <1>5. EpochsOfCounters' /\ EpochsOfDraws' /\ OrderOfDraws'
    BY DEF Load, IInv, EpochsOfCounters, EpochsOfDraws, OrderOfDraws
  <1>6. QED
    BY <1>3, <1>4, <1>5 DEF IInv

\* A restart makes every counter of the key one of an earlier epoch.
LEMMA RestartPreserves ==
    ASSUME IInv, NEW S \in SUBSET Keys, Restart(S)
    PROVE  IInv'
  <1>1. /\ restarts \in [Keys -> Nat]
        /\ restarts' \in [Keys -> Nat]
        /\ \A k \in Keys : restarts'[k] = IF k \in S THEN restarts[k] + 1 ELSE restarts[k]
        /\ \A k \in Keys : k \in stored' <=> k \in stored /\ k \notin S
    BY DEF Restart, IInv, TypeOK
  <1>2. UNCHANGED <<counters, at, key, held, born, since, draws>>
    BY DEF Restart
  <1>3. TypeOK'
    BY <1>1, <1>2 DEF Restart, IInv, TypeOK
  <1>4. EpochsOfCounters'
    BY <1>1, <1>2 DEF IInv, EpochsOfCounters
  <1>5. EpochsOfRequests'
    BY <1>1, <1>2 DEF IInv, TypeOK, EpochsOfRequests
  <1>6. EpochsOfDraws'
    <2>1. SUFFICES ASSUME NEW i \in DOMAIN draws
                   PROVE  draws[i].until <= restarts'[draws[i].key]
      BY <1>2 DEF IInv, EpochsOfDraws
    <2>2. draws[i].key \in Keys /\ draws[i].until \in Nat
      BY DrawsAreTyped DEF IInv
    <2>3. QED
      BY <1>1, <2>2 DEF IInv, EpochsOfDraws
  <1>7. OrderOfDraws'
    BY <1>2 DEF IInv, OrderOfDraws
  <1>8. QED
    BY <1>3, <1>4, <1>5, <1>6, <1>7 DEF IInv

\* A counter is made only when the map has none: its epoch is a new one.
LEMMA LoadOrStorePreserves ==
    ASSUME IInv, NEW r \in Requests, LoadOrStore(r)
    PROVE  IInv'
  <1> DEFINE k == key[r]
  <1>1. k \in Keys /\ at[r] = "store" /\ r \in Requests
    BY DEF LoadOrStore, IInv, TypeOK
  <1>2. CASE k \in stored
    <2>1. /\ Len(counters[k]) \in DOMAIN counters[k]
          /\ born[k][Len(counters[k])] = restarts[k]
      BY <1>1, <1>2 DEF IInv, EpochsOfCounters
    <2>2. /\ UNCHANGED <<stored, counters, born, key, restarts, since, draws>>
          /\ at' = [at EXCEPT ![r] = "add"]
          /\ held' = [held EXCEPT ![r] = Len(counters[k])]
      BY <1>2 DEF LoadOrStore
    <2>3. TypeOK'
      BY <1>1, <2>1, <2>2 DEF IInv, TypeOK
    <2>4. EpochsOfRequests'
      BY <1>1, <2>1, <2>2 DEF IInv, TypeOK, EpochsOfRequests
    <2>5. EpochsOfCounters' /\ EpochsOfDraws' /\ OrderOfDraws'
      BY <2>2 DEF IInv, EpochsOfCounters, EpochsOfDraws, OrderOfDraws
    <2>6. QED
      BY <2>3, <2>4, <2>5 DEF IInv
  <1>3. CASE k \notin stored
    <2> DEFINE n == Len(counters[k]) + 1
    <2>1. /\ stored' = stored \cup {k}
          /\ counters' = [counters EXCEPT ![k] = Append(@, 0)]
          /\ born' = [born EXCEPT ![k] = Append(@, restarts[k])]
          /\ at' = [at EXCEPT ![r] = "add"]
          /\ held' = [held EXCEPT ![r] = Len(counters'[k])]
          /\ UNCHANGED <<key, restarts, since, draws>>
      BY <1>3 DEF LoadOrStore
    <2>2. /\ counters \in [Keys -> Seq(Nat)] /\ born \in [Keys -> Seq(Nat)]
          /\ restarts \in [Keys -> Nat]
          /\ held \in [Requests -> Nat]
          /\ DOMAIN born[k] = DOMAIN counters[k]
      BY <1>1 DEF IInv, TypeOK, EpochsOfCounters
    <2>3. Len(born[k]) = Len(counters[k])
      BY <1>1, <2>2
    <2>4. /\ counters'[k] \in Seq(Nat) /\ born'[k] \in Seq(Nat)
          /\ Len(counters'[k]) = n /\ Len(born'[k]) = n
          /\ DOMAIN counters'[k] = DOMAIN counters[k] \cup {n}
          /\ DOMAIN born'[k] = DOMAIN counters[k] \cup {n}
          /\ n \notin DOMAIN counters[k]
          /\ \A c \in DOMAIN counters[k] : c < n
          /\ counters'[k][n] = 0 /\ born'[k][n] = restarts[k]
          /\ \A c \in DOMAIN counters[k] :
                counters'[k][c] = counters[k][c] /\ born'[k][c] = born[k][c]
      <3>1. counters'[k] = Append(counters[k], 0) /\ born'[k] = Append(born[k], restarts[k])
        BY <1>1, <2>1, <2>2
      <3>2. counters[k] \in Seq(Nat) /\ born[k] \in Seq(Nat) /\ restarts[k] \in Nat
        BY <1>1, <2>2
      <3>3. /\ Append(counters[k], 0) \in Seq(Nat)
            /\ Len(Append(counters[k], 0)) = n
            /\ DOMAIN Append(counters[k], 0) = DOMAIN counters[k] \cup {n}
            /\ Append(counters[k], 0)[n] = 0
            /\ n \notin DOMAIN counters[k]
            /\ \A c \in DOMAIN counters[k] :
                  c < n /\ Append(counters[k], 0)[c] = counters[k][c]
        BY <3>2, AppendElement
      <3>4. /\ Append(born[k], restarts[k]) \in Seq(Nat)
            /\ Len(Append(born[k], restarts[k])) = n
            /\ DOMAIN Append(born[k], restarts[k]) = DOMAIN counters[k] \cup {n}
            /\ Append(born[k], restarts[k])[n] = restarts[k]
            /\ \A c \in DOMAIN counters[k] :
                  Append(born[k], restarts[k])[c] = born[k][c]
        <4>1. /\ Append(born[k], restarts[k]) \in Seq(Nat)
              /\ Len(Append(born[k], restarts[k])) = Len(born[k]) + 1
              /\ DOMAIN Append(born[k], restarts[k]) = DOMAIN born[k] \cup {Len(born[k]) + 1}
              /\ Append(born[k], restarts[k])[Len(born[k]) + 1] = restarts[k]
              /\ \A c \in DOMAIN born[k] :
                    Append(born[k], restarts[k])[c] = born[k][c]
          BY <3>2, AppendElement
        <4>2. QED
          BY <2>2, <2>3, <4>1, Zenon
      <3>5. QED
        BY <3>1, <3>3, <3>4
    <2>5. \A m \in Keys : m # k => counters'[m] = counters[m] /\ born'[m] = born[m]
      BY <2>1, <2>2
    <2>6. held' = [held EXCEPT ![r] = n] /\ n \in Nat
      <3>1. n \in Nat
        BY <1>1, CountersAreTyped DEF IInv
      <3>2. QED
        BY <2>1, <2>4, <3>1
    <2>7. TypeOK'
      <3>1. /\ counters' \in [Keys -> Seq(Nat)]
            /\ born' \in [Keys -> Seq(Nat)]
        BY <1>1, <2>1, <2>2, <2>4
      <3>2. \A q \in Requests :
               /\ at'[q] # "idle" => key'[q] \in Keys
               /\ at'[q] = "add" => held'[q] \in DOMAIN counters'[key'[q]]
        BY <1>1, <2>1, <2>2, <2>4, <2>5, <2>6 DEF IInv, TypeOK
      <3>3. /\ stored' \subseteq Keys
            /\ at' \in [Requests -> {"idle", "load", "store", "add"}]
            /\ held' \in [Requests -> Nat]
        BY <1>1, <2>1, <2>6 DEF IInv, TypeOK
      <3>4. QED
        BY <2>1, <3>1, <3>2, <3>3 DEF IInv, TypeOK
    <2>8. EpochsOfCounters'
      <3>1. SUFFICES ASSUME NEW m \in Keys
                     PROVE  /\ DOMAIN born'[m] = DOMAIN counters'[m]
                            /\ \A c \in DOMAIN born'[m] :
                                  /\ born'[m][c] \in Nat
                                  /\ born'[m][c] <= restarts[m]
                                  /\ m \notin stored' => born'[m][c] < restarts[m]
                            /\ \A c, d \in DOMAIN born'[m] :
                                  c < d => born'[m][c] < born'[m][d]
                            /\ m \in stored' =>
                                  /\ Len(counters'[m]) \in DOMAIN counters'[m]
                                  /\ born'[m][Len(counters'[m])] = restarts[m]
        BY <2>1 DEF EpochsOfCounters
      <3>2. CASE m # k
        BY <2>1, <2>5, <3>2 DEF IInv, EpochsOfCounters
      <3>3. CASE m = k
        <4>1. \A c \in DOMAIN counters[k] : born[k][c] \in Nat /\ born[k][c] < restarts[k]
          BY <1>1, <1>3, <2>2 DEF IInv, EpochsOfCounters
        <4>2. \A c, d \in DOMAIN counters[k] : c < d => born[k][c] < born[k][d]
          BY <1>1, <2>2 DEF IInv, EpochsOfCounters
        <4>3. restarts[k] \in Nat /\ DOMAIN counters[k] \subseteq Nat
          BY <1>1, <2>2
        <4>4. /\ DOMAIN born'[k] = DOMAIN counters'[k]
              /\ k \in stored'
              /\ Len(counters'[k]) \in DOMAIN counters'[k]
              /\ born'[k][Len(counters'[k])] = restarts[k]
          BY <2>1, <2>4
        <4>5. \A c \in DOMAIN born'[k] : born'[k][c] \in Nat /\ born'[k][c] <= restarts[k]
          <5>1. SUFFICES ASSUME NEW c \in DOMAIN born'[k]
                         PROVE  born'[k][c] \in Nat /\ born'[k][c] <= restarts[k]
            OBVIOUS
          <5>2. CASE c \in DOMAIN counters[k]
            <6>1. born'[k][c] = born[k][c]
              BY <2>4, <5>2
            <6>2. born[k][c] \in Nat /\ born[k][c] < restarts[k]
              BY <4>1, <5>2
            <6>3. QED
              BY <4>3, <6>1, <6>2
          <5>3. CASE c = n
            BY <2>4, <4>3, <5>3
          <5>4. QED
            BY <2>4, <5>2, <5>3
        <4>6. \A c, d \in DOMAIN born'[k] : c < d => born'[k][c] < born'[k][d]
          <5>1. SUFFICES ASSUME NEW c \in DOMAIN born'[k], NEW d \in DOMAIN born'[k], c < d
                         PROVE  born'[k][c] < born'[k][d]
            OBVIOUS
          <5>2. c \in DOMAIN counters[k]
            BY <2>4, <2>6, <4>3, <5>1
          <5>3. CASE d \in DOMAIN counters[k]
            BY <2>4, <4>2, <5>1, <5>2, <5>3
          <5>4. CASE d = n
            BY <2>4, <4>1, <5>2, <5>4
          <5>5. QED
            BY <2>4, <5>3, <5>4
        <4>7. QED
          BY <3>3, <4>4, <4>5, <4>6
      <3>4. QED
        BY <3>2, <3>3
    <2>9. EpochsOfRequests'
      <3>1. SUFFICES ASSUME NEW q \in Requests
                     PROVE  /\ at'[q] # "idle" => since[q] <= restarts[key[q]]
                            /\ at'[q] = "add" => since[q] <= born'[key[q]][held'[q]]
        BY <2>1 DEF EpochsOfRequests
      <3>2. at[q] # "idle" => since[q] <= restarts[key[q]]
        BY DEF IInv, EpochsOfRequests
      <3>3. CASE q = r
        BY <1>1, <2>1, <2>4, <2>6, <3>2, <3>3 DEF IInv, TypeOK
      <3>4. CASE q # r
        <4>1. at'[q] = at[q] /\ held'[q] = held[q]
          BY <1>1, <2>1, <2>6, <3>4 DEF IInv, TypeOK
        <4>2. at[q] = "add" => /\ key[q] \in Keys
                               /\ held[q] \in DOMAIN counters[key[q]]
                               /\ since[q] <= born[key[q]][held[q]]
          BY DEF IInv, TypeOK, EpochsOfRequests
        <4>3. QED
          BY <2>4, <2>5, <3>2, <4>1, <4>2
      <3>5. QED
        BY <3>3, <3>4
    <2>10. EpochsOfDraws'
      <3>1. SUFFICES ASSUME NEW i \in DOMAIN draws
                     PROVE  /\ draws[i].counter \in DOMAIN counters'[draws[i].key]
                            /\ draws[i].index < counters'[draws[i].key][draws[i].counter]
                            /\ draws[i].since <= born'[draws[i].key][draws[i].counter]
                            /\ born'[draws[i].key][draws[i].counter] <= draws[i].until
                            /\ draws[i].until <= restarts[draws[i].key]
        BY <2>1 DEF EpochsOfDraws
      <3>2. draws[i].key \in Keys
        BY DrawsAreTyped DEF IInv
      <3>3. /\ draws[i].counter \in DOMAIN counters[draws[i].key]
            /\ draws[i].index < counters[draws[i].key][draws[i].counter]
            /\ draws[i].since <= born[draws[i].key][draws[i].counter]
            /\ born[draws[i].key][draws[i].counter] <= draws[i].until
            /\ draws[i].until <= restarts[draws[i].key]
        BY DEF IInv, EpochsOfDraws
      <3>4. CASE draws[i].key = k
        <4>1. draws[i].counter \in DOMAIN counters[k]
          BY <3>3, <3>4
        <4>2. /\ draws[i].counter \in DOMAIN counters'[k]
              /\ counters'[k][draws[i].counter] = counters[k][draws[i].counter]
              /\ born'[k][draws[i].counter] = born[k][draws[i].counter]
          BY <2>4, <4>1
        <4>3. QED
          BY <3>3, <3>4, <4>2
      <3>5. CASE draws[i].key # k
        BY <2>5, <3>2, <3>3, <3>5
      <3>6. QED
        BY <3>4, <3>5
    <2>11. OrderOfDraws'
      BY <2>1 DEF IInv, OrderOfDraws
    <2>12. QED
      BY <2>7, <2>8, <2>9, <2>10, <2>11 DEF IInv
  <1>4. QED
    BY <1>2, <1>3

\* What Add does to the counter it holds and to the draws.
LEMMA AddEffect ==
    ASSUME IInv, NEW r \in Requests, Add(r)
    PROVE  LET k == key[r]
               c == held[r]
               d == [key |-> k, counter |-> c, index |-> counters[k][c],
                     since |-> since[r], until |-> restarts[k]]
           IN  /\ k \in Keys /\ c \in DOMAIN counters[k]
               /\ d \in Draws
               /\ draws' = Append(draws, d)
               /\ counters' \in [Keys -> Seq(Nat)]
               /\ counters'[k][c] = counters[k][c] + 1
               /\ \A m \in Keys : /\ DOMAIN counters'[m] = DOMAIN counters[m]
                                  /\ Len(counters'[m]) = Len(counters[m])
               /\ \A m \in Keys : \A e \in DOMAIN counters[m] :
                     ~(m = k /\ e = c) => counters'[m][e] = counters[m][e]
  <1> DEFINE k == key[r]
             c == held[r]
             v == counters[k][c]
  <1>1. k \in Keys /\ c \in DOMAIN counters[k]
    BY DEF Add, IInv, TypeOK
  <1>2. /\ counters \in [Keys -> Seq(Nat)] /\ restarts[k] \in Nat
        /\ since[r] \in Nat /\ c \in Nat /\ v \in Nat
    BY <1>1, CountersAreTyped DEF IInv, TypeOK
  <1>3. counters' = [counters EXCEPT ![k] = [counters[k] EXCEPT ![c] = v + 1]]
    BY DEF Add
  <1>4. counters[k] \in Seq(Nat) /\ v + 1 \in Nat
    BY <1>1, <1>2
  <1>5. /\ [counters[k] EXCEPT ![c] = v + 1] \in Seq(Nat)
        /\ DOMAIN [counters[k] EXCEPT ![c] = v + 1] = DOMAIN counters[k]
        /\ Len([counters[k] EXCEPT ![c] = v + 1]) = Len(counters[k])
        /\ [counters[k] EXCEPT ![c] = v + 1][c] = v + 1
        /\ \A e \in DOMAIN counters[k] :
              e # c => [counters[k] EXCEPT ![c] = v + 1][e] = counters[k][e]
    BY <1>1, <1>4, ReplaceElement
  <1>6. counters'[k] = [counters[k] EXCEPT ![c] = v + 1]
    BY <1>1, <1>2, <1>3
  <1>7. \A m \in Keys : m # k => counters'[m] = counters[m]
    BY <1>2, <1>3
  <1>8. counters' \in [Keys -> Seq(Nat)]
    BY <1>2, <1>3, <1>5
  <1>9. counters'[k][c] = v + 1
    BY <1>5, <1>6
  <1>10. draws' = Append(draws, [key |-> k, counter |-> c, index |-> v,
                                 since |-> since[r], until |-> restarts[k]])
    <2>1. counters'[k][c] - 1 = v
      BY <1>2, <1>9
    <2>2. QED
      BY <2>1 DEF Add
  <1>11. [key |-> k, counter |-> c, index |-> v,
          since |-> since[r], until |-> restarts[k]] \in Draws
    BY <1>1, <1>2 DEF Draws
  <1>12. \A m \in Keys : /\ DOMAIN counters'[m] = DOMAIN counters[m]
                         /\ Len(counters'[m]) = Len(counters[m])
    BY <1>5, <1>6, <1>7
  <1>13. \A m \in Keys : \A e \in DOMAIN counters[m] :
            ~(m = k /\ e = c) => counters'[m][e] = counters[m][e]
    BY <1>5, <1>6, <1>7
  <1>14. QED
    BY <1>1, <1>8, <1>9, <1>10, <1>11, <1>12, <1>13

\* Add hands out the next index of a counter the request may use.
LEMMA AddPreserves ==
    ASSUME IInv, NEW r \in Requests, Add(r)
    PROVE  IInv'
  <1> DEFINE k == key[r]
             c == held[r]
             d == [key |-> k, counter |-> c, index |-> counters[k][c],
                   since |-> since[r], until |-> restarts[k]]
             n == Len(draws) + 1
  <1>1. /\ k \in Keys /\ c \in DOMAIN counters[k]
        /\ d \in Draws
        /\ draws' = Append(draws, d)
        /\ counters' \in [Keys -> Seq(Nat)]
        /\ counters'[k][c] = counters[k][c] + 1
        /\ \A m \in Keys : /\ DOMAIN counters'[m] = DOMAIN counters[m]
                           /\ Len(counters'[m]) = Len(counters[m])
        /\ \A m \in Keys : \A e \in DOMAIN counters[m] :
              ~(m = k /\ e = c) => counters'[m][e] = counters[m][e]
    BY AddEffect
  <1>2. /\ at[r] = "add"
        /\ at' = [at EXCEPT ![r] = "idle"]
        /\ key' = [key EXCEPT ![r] = None]
        /\ held' = [held EXCEPT ![r] = 0]
        /\ since' = [since EXCEPT ![r] = 0]
        /\ UNCHANGED <<stored, restarts, born>>
    BY DEF Add
  <1>3. draws \in Seq(Draws)
    BY DEF IInv, TypeOK
  <1>4. /\ draws' \in Seq(Draws)
        /\ DOMAIN draws' = DOMAIN draws \cup {n}
        /\ draws'[n] = d
        /\ \A i \in DOMAIN draws : i < n /\ draws'[i] = draws[i]
        /\ n \notin DOMAIN draws
    BY <1>1, <1>3, AppendDraw
  <1>5. TypeOK'
    <2>1. \A q \in Requests :
             /\ at'[q] # "idle" => key'[q] \in Keys
             /\ at'[q] = "add" => held'[q] \in DOMAIN counters'[key'[q]]
      BY <1>1, <1>2 DEF IInv, TypeOK
    <2>2. /\ at' \in [Requests -> {"idle", "load", "store", "add"}]
          /\ key' \in [Requests -> Keys \cup {None}]
          /\ held' \in [Requests -> Nat]
          /\ since' \in [Requests -> Nat]
      BY <1>2 DEF IInv, TypeOK
    <2>3. QED
      BY <1>1, <1>2, <1>4, <2>1, <2>2 DEF IInv, TypeOK
  <1>6. EpochsOfCounters'
    BY <1>1, <1>2 DEF IInv, EpochsOfCounters
  <1>7. EpochsOfRequests'
    BY <1>2 DEF IInv, TypeOK, EpochsOfRequests
  <1>8. /\ born[k][c] <= restarts[k] /\ since[r] <= born[k][c]
    BY <1>1, <1>2 DEF IInv, EpochsOfCounters, EpochsOfRequests
  <1>9. EpochsOfDraws'
    <2>1. SUFFICES ASSUME NEW i \in DOMAIN draws'
                   PROVE  /\ draws'[i].counter \in DOMAIN counters'[draws'[i].key]
                          /\ draws'[i].index < counters'[draws'[i].key][draws'[i].counter]
                          /\ draws'[i].since <= born[draws'[i].key][draws'[i].counter]
                          /\ born[draws'[i].key][draws'[i].counter] <= draws'[i].until
                          /\ draws'[i].until <= restarts[draws'[i].key]
      BY <1>2 DEF EpochsOfDraws
    <2>2. counters[k][c] \in Nat /\ restarts[k] \in Nat
      BY <1>1, CountersAreTyped DEF IInv
    <2>3. CASE i = n
      BY <1>1, <1>4, <1>8, <2>2, <2>3
    <2>4. CASE i \in DOMAIN draws
      <3>1. /\ draws'[i] = draws[i]
            /\ draws[i].key \in Keys
            /\ draws[i].index \in Nat
            /\ draws[i].counter \in DOMAIN counters[draws[i].key]
            /\ draws[i].index < counters[draws[i].key][draws[i].counter]
            /\ draws[i].since <= born[draws[i].key][draws[i].counter]
            /\ born[draws[i].key][draws[i].counter] <= draws[i].until
            /\ draws[i].until <= restarts[draws[i].key]
        BY <1>4, <2>4, DrawsAreTyped DEF IInv, EpochsOfDraws
      <3>2. draws[i].index < counters'[draws[i].key][draws[i].counter]
        <4>1. CASE draws[i].key = k /\ draws[i].counter = c
          <5>1. draws[i].index < counters[k][c]
            BY <3>1, <4>1
          <5>2. counters'[draws[i].key][draws[i].counter] = counters[k][c] + 1
            BY <1>1, <4>1
          <5>3. QED
            BY <2>2, <3>1, <5>1, <5>2
        <4>2. CASE ~(draws[i].key = k /\ draws[i].counter = c)
          <5>1. counters'[draws[i].key][draws[i].counter]
                   = counters[draws[i].key][draws[i].counter]
            BY <1>1, <3>1, <4>2
          <5>2. QED
            BY <3>1, <5>1
        <4>3. QED
          BY <4>1, <4>2
      <3>3. QED
        BY <1>1, <3>1, <3>2
    <2>5. QED
      BY <1>4, <2>3, <2>4
  <1>10. OrderOfDraws'
    <2>1. SUFFICES ASSUME NEW i \in DOMAIN draws', NEW j \in DOMAIN draws',
                          i < j, draws'[i].key = draws'[j].key
                   PROVE  /\ draws'[i].until <= draws'[j].until
                          /\ draws'[i].counter = draws'[j].counter
                                => draws'[i].index < draws'[j].index
      BY DEF OrderOfDraws
    <2>2. i \in DOMAIN draws
      <3>1. \A l \in DOMAIN draws : l \in Nat /\ l < n
        BY <1>3, <1>4, SeqElement
      <3>2. n \in Nat
        BY <1>3, SeqElement
      <3>3. QED
        BY <1>4, <2>1, <3>1, <3>2
    <2>3. CASE j = n
      <3>1. /\ draws'[i] = draws[i] /\ draws'[j] = d
            /\ draws[i].key = k
        BY <1>4, <2>1, <2>2, <2>3
      <3>2. /\ draws[i].until <= restarts[k]
            /\ draws[i].counter \in DOMAIN counters[k]
            /\ draws[i].index < counters[k][draws[i].counter]
        BY <2>2, <3>1 DEF IInv, EpochsOfDraws
      <3>3. QED
        BY <3>1, <3>2
    <2>4. CASE j \in DOMAIN draws
      BY <1>4, <2>1, <2>2, <2>4 DEF IInv, OrderOfDraws
    <2>5. QED
      BY <1>4, <2>3, <2>4
  <1>11. QED
    BY <1>5, <1>6, <1>7, <1>9, <1>10 DEF IInv

\* Every step of every request and every restart preserves the invariant.
LEMMA NextPreserves == IInv /\ [Next]_counterVars => IInv'
  <1> SUFFICES ASSUME IInv, [Next]_counterVars PROVE IInv'
    OBVIOUS
  <1>1. ASSUME NEW r \in Requests, NEW k \in Keys, nextIndex(r, k) PROVE IInv'
    BY <1>1, CallPreserves
  <1>2. ASSUME NEW r \in Requests, Load(r) PROVE IInv'
    BY <1>2, LoadPreserves
  <1>3. ASSUME NEW r \in Requests, LoadOrStore(r) PROVE IInv'
    BY <1>3, LoadOrStorePreserves
  <1>4. ASSUME NEW r \in Requests, Add(r) PROVE IInv'
    BY <1>4, AddPreserves
  <1>5. ASSUME NEW S \in SUBSET Keys, Restart(S) PROVE IInv'
    BY <1>5, RestartPreserves
  <1>6. CASE UNCHANGED counterVars
    BY <1>6 DEF counterVars, IInv, TypeOK, EpochsOfCounters, EpochsOfRequests,
                EpochsOfDraws, OrderOfDraws
  <1>7. QED
    BY <1>1, <1>2, <1>3, <1>4, <1>5, <1>6 DEF Next

\* The inductive invariant holds, for any number of keys and requests.
THEOREM Invariance == Spec => []IInv
  BY InitIInv, NextPreserves, PTL DEF Spec

\* Every variable has its type; no request Adds to a counter that is not there.
THEOREM TypeCorrect == Spec => []TypeOK
  BY Invariance, PTL DEF IInv

\* A sequence restarted before a request arrived is not continued by it.
THEOREM RestartedSequencesEnd == Spec => []NoRestartedSequenceContinues
  <1>1. IInv => NoRestartedSequenceContinues
    BY DEF IInv, EpochsOfDraws, NoRestartedSequenceContinues
  <1>2. QED
    BY <1>1, Invariance, PTL

\* Two requests with no restart around them come from the same counter, and
\* get different indexes in the order of their draws.
THEOREM IndexesAlwaysAdvance == Spec => []IndexesAdvance
  <1>1. IInv => IndexesAdvance
    <2>1. SUFFICES ASSUME IInv,
                          NEW i \in DOMAIN draws, NEW j \in DOMAIN draws,
                          i < j,
                          draws[i].key = draws[j].key,
                          draws[i].since = draws[j].until,
                          draws[j].since = draws[j].until
                   PROVE  draws[i].index < draws[j].index
      BY DEF IndexesAdvance
    <2> DEFINE k == draws[i].key
               ci == draws[i].counter
               cj == draws[j].counter
    <2>2. k \in Keys /\ draws[j].until \in Nat
      BY <2>1, DrawsAreTyped DEF IInv
    <2>3. /\ ci \in DOMAIN counters[k] /\ cj \in DOMAIN counters[k]
          /\ draws[j].until <= born[k][ci] /\ born[k][ci] <= draws[i].until
          /\ draws[j].until <= born[k][cj] /\ born[k][cj] <= draws[j].until
      BY <2>1 DEF IInv, EpochsOfDraws
    <2>4. draws[i].until <= draws[j].until
      BY <2>1 DEF IInv, OrderOfDraws
    <2>5. /\ DOMAIN born[k] = DOMAIN counters[k]
          /\ \A c \in DOMAIN counters[k] : c \in Nat /\ born[k][c] \in Nat
      BY <2>1, <2>2, CountersAreTyped DEF IInv, EpochsOfCounters
    <2>6. draws[i].until \in Nat
      BY <2>1, DrawsAreTyped DEF IInv
    <2>7. born[k][ci] = born[k][cj]
      BY <2>2, <2>3, <2>4, <2>5, <2>6
    <2>8. ci = cj
      <3>1. \A c, e \in DOMAIN born[k] : c < e => born[k][c] < born[k][e]
        BY <2>1, <2>2 DEF IInv, EpochsOfCounters
      <3>2. ~(ci < cj) /\ ~(cj < ci)
        BY <2>3, <2>5, <2>7, <3>1
      <3>3. QED
        BY <2>3, <2>5, <3>2
    <2>9. QED
      BY <2>1, <2>8 DEF IInv, OrderOfDraws
  <1>2. QED
    BY <1>1, Invariance, PTL

-------------------------------------------------------------------------------
(* No index is skipped.                                                    *)

\* The counter LoadOrStore makes starts at 0, and the others stay.
LEMMA NewCounterIsZero ==
    ASSUME IInv, NEW r \in Requests, LoadOrStore(r)
    PROVE  \A k \in Keys : \A c \in DOMAIN counters'[k] :
              \/ counters'[k][c] = 0
              \/ c \in DOMAIN counters[k] /\ counters'[k][c] = counters[k][c]
  <1>1. counters \in [Keys -> Seq(Nat)] /\ key[r] \in Keys
    BY DEF IInv, TypeOK, LoadOrStore
  <1>2. CASE counters' = counters
    BY <1>2
  <1>3. CASE counters' = [counters EXCEPT ![key[r]] = Append(@, 0)]
    <2>1. counters'[key[r]] = Append(counters[key[r]], 0)
      BY <1>1, <1>3
    <2>2. counters[key[r]] \in Seq(Nat) /\ 0 \in Nat
      BY <1>1
    <2>3. /\ DOMAIN Append(counters[key[r]], 0)
                = DOMAIN counters[key[r]] \cup {Len(counters[key[r]]) + 1}
          /\ Append(counters[key[r]], 0)[Len(counters[key[r]]) + 1] = 0
          /\ \A c \in DOMAIN counters[key[r]] :
                Append(counters[key[r]], 0)[c] = counters[key[r]][c]
      BY <2>2, AppendElement
    <2>4. \A k \in Keys : k # key[r] => counters'[k] = counters[k]
      BY <1>1, <1>3
    <2>5. QED
      BY <2>1, <2>3, <2>4
  <1>4. QED
    BY <1>2, <1>3 DEF LoadOrStore

\* Every index below a counter was handed out: Add hands out the next one.
LEMMA NextSkipsNoIndex ==
    IInv /\ NoIndexSkipped /\ [Next]_counterVars => NoIndexSkipped'
  <1> SUFFICES ASSUME IInv, NoIndexSkipped, [Next]_counterVars,
                      NEW k \in Keys, NEW c \in DOMAIN counters'[k],
                      NEW x \in 0 .. counters'[k][c] - 1
               PROVE  \E i \in DOMAIN draws' :
                         /\ draws'[i].key = k
                         /\ draws'[i].counter = c
                         /\ draws'[i].index = x
    BY DEF NoIndexSkipped
  <1>1. CASE UNCHANGED <<counters, draws>>
    BY <1>1 DEF NoIndexSkipped
  <1>2. ASSUME NEW r \in Requests, LoadOrStore(r)
        PROVE  \E i \in DOMAIN draws' :
                  draws'[i].key = k /\ draws'[i].counter = c /\ draws'[i].index = x
    <2>1. draws' = draws
      BY <1>2 DEF LoadOrStore
    <2>2. c \in DOMAIN counters[k] /\ counters'[k][c] = counters[k][c]
      BY <1>2, NewCounterIsZero
    <2>3. QED
      BY <2>1, <2>2 DEF NoIndexSkipped
  <1>3. ASSUME NEW r \in Requests, Add(r)
        PROVE  \E i \in DOMAIN draws' :
                  draws'[i].key = k /\ draws'[i].counter = c /\ draws'[i].index = x
    <2> DEFINE d == [key |-> key[r], counter |-> held[r],
                     index |-> counters[key[r]][held[r]],
                     since |-> since[r], until |-> restarts[key[r]]]
    <2>1. /\ key[r] \in Keys /\ held[r] \in DOMAIN counters[key[r]]
          /\ d \in Draws /\ draws' = Append(draws, d)
          /\ counters'[key[r]][held[r]] = counters[key[r]][held[r]] + 1
          /\ DOMAIN counters'[k] = DOMAIN counters[k]
          /\ ~(k = key[r] /\ c = held[r]) => counters'[k][c] = counters[k][c]
      BY <1>3, AddEffect
    <2>2. draws \in Seq(Draws)
      BY DEF IInv, TypeOK
    <2>3. /\ DOMAIN draws' = DOMAIN draws \cup {Len(draws) + 1}
          /\ draws'[Len(draws) + 1] = d
          /\ \A i \in DOMAIN draws : draws'[i] = draws[i]
      BY <2>1, <2>2, AppendDraw
    <2>4. counters[k][c] \in Nat
      BY <2>1, CountersAreTyped DEF IInv
    <2>5. CASE k = key[r] /\ c = held[r] /\ x = counters[k][c]
      BY <2>3, <2>5
    <2>6. CASE ~(k = key[r] /\ c = held[r] /\ x = counters[k][c])
      <3>1. x \in 0 .. counters[k][c] - 1
        BY <2>1, <2>4, <2>6
      <3>2. PICK i \in DOMAIN draws :
               draws[i].key = k /\ draws[i].counter = c /\ draws[i].index = x
        BY <2>1, <3>1 DEF NoIndexSkipped
      <3>3. QED
        BY <2>3, <3>2
    <2>7. QED
      BY <2>5, <2>6
  <1>4. QED
    BY <1>1, <1>2, <1>3 DEF Next, nextIndex, Load, Restart, counterVars

\* No step of a scenario and no decision of a rule is ever skipped.
THEOREM NoIndexIsEverSkipped == Spec => []NoIndexSkipped
  <1>1. Init => NoIndexSkipped
    BY DEF Init, NoIndexSkipped
  <1>2. QED
    BY <1>1, NextSkipsNoIndex, Invariance, PTL DEF Spec

==============================================================================
