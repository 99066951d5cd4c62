--------------------------- MODULE Algorithms_proofs ---------------------------
(***************************************************************************)
(* Proofs about the algorithms, for inputs of every size: rules match as   *)
(* documented (PathGlobs), what passes Validate or ParseFaults can be      *)
(* played, a label is a list of directives for what it stands for          *)
(* (FaultDirectives), and bodies arrive as configured (BodyReaders).  Each *)
(* is a lemma about the operators; the theorems say it of the inputs of    *)
(* Algorithms.                                                             *)
(*                                                                         *)
(* Where the code goes through a table or a loop, the argument is that of  *)
(* the entries that were wrong one would come first (Least).  The tables   *)
(* of PathGlobs go from their last corner, the documentation says where    *)
(* the parts of a pattern end.  Ends says it for what is left of pattern   *)
(* and path; its table is one the code could compute (EndsIsTable), and    *)
(* there is only one (OneTable).  The log of BodyReaders grows by a Read,  *)
(* which keeps the readers, the clock and the log as they should be        *)
(* (ReadKeeps, LongerIsKept, Reached).                                     *)
(***************************************************************************)
EXTENDS Algorithms, FiniteSetTheorems, WellFoundedInduction, TLAPS

-------------------------------------------------------------------------------
(* The tables.                                                             *)

\* Every set of numbers that is not empty has a least one.
LEMMA Least ==
    ASSUME NEW T \in SUBSET Nat, T # {}
    PROVE  \E x \in T : \A y \in T : x <= y
  <1>1. PICK x \in T : \A y \in T : ~(<<y, x>> \in OpToRel(<, Nat))
    <2>1. \E x \in T : \A y \in T : ~(<<y, x>> \in OpToRel(<, Nat))
      BY NatLessThanWellFounded, WFMin
    <2>2. QED BY <2>1
  <1>2. \A y \in T : ~(y < x)
    BY <1>1 DEF OpToRel
  <1>3. QED BY <1>2

\* The parts i + 1 .. n take the elements j + 1 .. m: a part in free takes any number
\* of them, part k another takes just the element it ends at, one in take.
Follows(k, free, take, before, after) ==
    IF k \in free THEN before <= after ELSE after = before + 1 /\ <<k, after>> \in take

Ends(n, m, free, take, i, j) ==
    \E end \in [i .. n -> 0 .. m] :
        /\ end[i] = j /\ end[n] = m
        /\ \A k \in i + 1 .. n : Follows(k, free, take, end[k - 1], end[k])

\* What an entry of the table is computed from.
Entry(n, m, free, take, X, i, j) ==
    IF i = n THEN j = m
    ELSE IF i + 1 \in free
         THEN <<i + 1, j>> \in X \/ (j < m /\ <<i, j + 1>> \in X)
         ELSE j < m /\ <<i + 1, j + 1>> \in take /\ <<i + 1, j + 1>> \in X

IsTable(n, m, free, take, X) ==
    \A i \in 0 .. n, j \in 0 .. m : <<i, j>> \in X <=> Entry(n, m, free, take, X, i, j)

EndsTable(n, m, free, take) ==
    {at \in (0 .. n) \X (0 .. m) : Ends(n, m, free, take, at[1], at[2])}

\* What is left at the last part is nothing.
LEMMA EndsLast ==
    ASSUME NEW n \in Nat, NEW m \in Nat, NEW free, NEW take, NEW j \in 0 .. m
    PROVE  Ends(n, m, free, take, n, j) <=> j = m
  <1>1. ASSUME j = m PROVE Ends(n, m, free, take, n, j)
    <2>1. [k \in n .. n |-> m] \in [n .. n -> 0 .. m]
      OBVIOUS
    <2>2. [k \in n .. n |-> m][n] = m /\ n + 1 .. n = {}
      OBVIOUS
    <2>3. QED BY <1>1, <2>1, <2>2 DEF Ends
  <1>2. QED BY <1>1 DEF Ends

\* The rest can be matched when the next part can end somewhere
\* from where the rest of that can be matched.
LEMMA EndsWithout ==
    ASSUME NEW n \in Nat, NEW m \in Nat, NEW free, NEW take, NEW i \in 0 .. n, NEW j \in 0 .. m,
           i < n, NEW next \in 0 .. m, Follows(i + 1, free, take, j, next),
           Ends(n, m, free, take, i + 1, next)
    PROVE  Ends(n, m, free, take, i, j)
  <1>1. PICK end \in [i + 1 .. n -> 0 .. m] :
            /\ end[i + 1] = next /\ end[n] = m
            /\ \A k \in i + 2 .. n : Follows(k, free, take, end[k - 1], end[k])
    <2>1. (i + 1) + 1 = i + 2
      OBVIOUS
    <2>2. QED BY <2>1 DEF Ends
  <1> DEFINE more == [k \in i .. n |-> IF k = i THEN j ELSE end[k]]
  <1>2. more \in [i .. n -> 0 .. m]
    BY <1>1
  <1>3. more[i] = j /\ more[n] = m
    BY <1>1
  <1>4. ASSUME NEW k \in i + 1 .. n PROVE Follows(k, free, take, more[k - 1], more[k])
    <2>1. CASE k = i + 1
      <3>1. more[k - 1] = j /\ more[k] = next
        BY <1>1, <2>1
      <3>2. QED BY <2>1, <3>1
    <2>2. CASE k # i + 1
      <3>1. k \in i + 2 .. n /\ more[k - 1] = end[k - 1] /\ more[k] = end[k]
        BY <2>2
      <3>2. QED BY <1>1, <3>1
    <2>3. QED BY <2>1, <2>2
  <1> HIDE DEF more
  <1>5. QED BY <1>2, <1>3, <1>4 DEF Ends

\* And only then.
LEMMA EndsOf ==
    ASSUME NEW n \in Nat, NEW m \in Nat, NEW free, NEW take, NEW i \in 0 .. n, NEW j \in 0 .. m,
           i < n, Ends(n, m, free, take, i, j)
    PROVE  \E next \in 0 .. m : /\ Follows(i + 1, free, take, j, next)
                                /\ Ends(n, m, free, take, i + 1, next)
  <1>1. PICK end \in [i .. n -> 0 .. m] :
            /\ end[i] = j /\ end[n] = m
            /\ \A k \in i + 1 .. n : Follows(k, free, take, end[k - 1], end[k])
    BY DEF Ends
  <1> DEFINE less == [k \in i + 1 .. n |-> end[k]]
  <1>2. less \in [i + 1 .. n -> 0 .. m]
    OBVIOUS
  <1>3. less[i + 1] = end[i + 1] /\ less[n] = m
    BY <1>1
  <1>4. ASSUME NEW k \in (i + 1) + 1 .. n PROVE Follows(k, free, take, less[k - 1], less[k])
    <2>1. k \in i + 1 .. n /\ less[k - 1] = end[k - 1] /\ less[k] = end[k]
      OBVIOUS
    <2>2. QED BY <1>1, <2>1
  <1> HIDE DEF less
  <1>5. Ends(n, m, free, take, i + 1, end[i + 1])
    BY <1>2, <1>3, <1>4 DEF Ends
  <1>6. end[i + 1] \in 0 .. m /\ i + 1 \in i + 1 .. n /\ (i + 1) - 1 = i
    OBVIOUS
  <1>7. Follows(i + 1, free, take, end[i], end[i + 1])
    BY <1>1, <1>6
  <1>8. QED BY <1>1, <1>5, <1>6, <1>7

\* The table of Ends is computed as its definition is.
LEMMA EndsIsTable ==
    ASSUME NEW n \in Nat, NEW m \in Nat, NEW free, NEW take
    PROVE  IsTable(n, m, free, take, EndsTable(n, m, free, take))
  <1> DEFINE E(i, j) == Ends(n, m, free, take, i, j)
  <1>1. SUFFICES ASSUME NEW i \in 0 .. n, NEW j \in 0 .. m
                 PROVE  E(i, j) <=> IF i = n THEN j = m
                                    ELSE IF i + 1 \in free
                                         THEN E(i + 1, j) \/ (j < m /\ E(i, j + 1))
                                         ELSE j < m /\ <<i + 1, j + 1>> \in take /\ E(i + 1, j + 1)
    <2>1. \A i \in 0 .. n, j \in 0 .. m :
              /\ <<i, j>> \in EndsTable(n, m, free, take) <=> E(i, j)
              /\ i # n => i + 1 \in 0 .. n
              /\ j < m => j + 1 \in 0 .. m
      BY DEF EndsTable
    <2> HIDE DEF E
    <2>2. QED BY <2>1 DEF IsTable, Entry
  <1>2. CASE i = n
    BY <1>2, EndsLast
  <1>3. CASE i # n /\ i + 1 \in free
    <2>1. ASSUME E(i, j), ~E(i + 1, j) PROVE j < m /\ E(i, j + 1)
      <3>1. PICK next \in 0 .. m : j <= next /\ E(i + 1, next)
        <4>1. PICK next \in 0 .. m : Follows(i + 1, free, take, j, next) /\ E(i + 1, next)
          BY <1>3, <2>1, EndsOf
        <4>2. j <= next
          BY <1>3, <4>1 DEF Follows
        <4>3. QED BY <4>1, <4>2
      <3>2. j # next
        BY <2>1, <3>1
      <3>3. j + 1 \in 0 .. m /\ j + 1 <= next /\ j < m
        BY <3>1, <3>2
      <3>4. Follows(i + 1, free, take, j + 1, next)
        BY <1>3, <3>3 DEF Follows
      <3>5. QED BY <1>3, <3>1, <3>3, <3>4, EndsWithout
    <2>2. ASSUME E(i + 1, j) PROVE E(i, j)
      <3>1. Follows(i + 1, free, take, j, j)
        BY <1>3 DEF Follows
      <3>2. QED BY <1>3, <2>2, <3>1, EndsWithout
    <2>3. ASSUME j < m, E(i, j + 1) PROVE E(i, j)
      <3>1. PICK next \in 0 .. m : j + 1 <= next /\ E(i + 1, next)
        <4>1. j + 1 \in 0 .. m
          BY <2>3
        <4>2. PICK next \in 0 .. m : Follows(i + 1, free, take, j + 1, next) /\ E(i + 1, next)
          BY <1>3, <2>3, <4>1, EndsOf
        <4>3. j + 1 <= next
          BY <1>3, <4>2 DEF Follows
        <4>4. QED BY <4>2, <4>3
      <3>2. Follows(i + 1, free, take, j, next)
        BY <1>3, <3>1 DEF Follows
      <3>3. QED BY <1>3, <3>1, <3>2, EndsWithout
    <2> HIDE DEF E
    <2>4. QED BY <1>3, <2>1, <2>2, <2>3
  <1>4. CASE i # n /\ i + 1 \notin free
    <2>1. ASSUME E(i, j) PROVE j < m /\ <<i + 1, j + 1>> \in take /\ E(i + 1, j + 1)
      <3>1. PICK next \in 0 .. m : Follows(i + 1, free, take, j, next) /\ E(i + 1, next)
        BY <1>4, <2>1, EndsOf
      <3>2. next = j + 1 /\ <<i + 1, next>> \in take
        BY <1>4, <3>1 DEF Follows
      <3>3. QED BY <3>1, <3>2
    <2>2. ASSUME j < m, <<i + 1, j + 1>> \in take, E(i + 1, j + 1) PROVE E(i, j)
      <3>1. j + 1 \in 0 .. m
        BY <2>2
      <3>2. QED BY <1>4, <2>2, <3>1, EndsWithout DEF Follows
    <2> HIDE DEF E
    <2>3. QED BY <1>4, <2>1, <2>2
  <1>5. QED BY <1>2, <1>3, <1>4

\* Two tables do not differ: of the entries they differ in, one needs least.
LEMMA OneTable ==
    ASSUME NEW n \in Nat, NEW m \in Nat, NEW free, NEW take, NEW X, NEW Y,
           IsTable(n, m, free, take, X), IsTable(n, m, free, take, Y),
           NEW a \in 0 .. n, NEW b \in 0 .. m
    PROVE  <<a, b>> \in X <=> <<a, b>> \in Y
  <1> DEFINE Differ(i, j) == ~(<<i, j>> \in X <=> <<i, j>> \in Y)
  <1> DEFINE Ranks == {r \in Nat : \E i \in 0 .. n, j \in 0 .. m :
                                       r = (n - i) + (m - j) /\ Differ(i, j)}
  <1> SUFFICES ASSUME Differ(a, b) PROVE FALSE
    OBVIOUS
  <1>1. Ranks # {}
    <2>1. (n - a) + (m - b) \in Nat
      OBVIOUS
    <2>2. (n - a) + (m - b) \in Ranks
      BY <2>1
    <2>3. QED BY <2>2
  <1>2. PICK r \in Ranks : \A s \in Ranks : r <= s
    <2>1. Ranks \in SUBSET Nat
      OBVIOUS
    <2> HIDE DEF Ranks
    <2>2. QED BY <1>1, <2>1, Least
  <1>3. PICK i \in 0 .. n, j \in 0 .. m : r = (n - i) + (m - j) /\ Differ(i, j)
    BY <1>2
  <1>4. ASSUME NEW k \in 0 .. n, NEW l \in 0 .. m, k + l > i + j
        PROVE  <<k, l>> \in X <=> <<k, l>> \in Y
    <2>1. (n - k) + (m - l) \in Nat /\ (n - k) + (m - l) < (n - i) + (m - j)
      BY <1>4
    <2>2. ~((n - i) + (m - j) <= (n - k) + (m - l))
      BY <2>1
    <2>3. (n - k) + (m - l) \notin Ranks
      BY <1>2, <1>3, <2>2
    <2>4. ~Differ(k, l)
      BY <2>1, <2>3
    <2>5. QED BY <2>4
  <1>5. Entry(n, m, free, take, X, i, j) <=> Entry(n, m, free, take, Y, i, j)
    <2>1. i # n => i + 1 \in 0 .. n /\ i + 1 + j > i + j /\ (j < m => i + 1 + j + 1 > i + j)
      OBVIOUS
    <2>2. j < m => j + 1 \in 0 .. m /\ i + (j + 1) > i + j
      OBVIOUS
    <2>3. i # n => (<<i + 1, j>> \in X <=> <<i + 1, j>> \in Y)
      BY <1>4, <2>1
    <2>4. j < m => (<<i, j + 1>> \in X <=> <<i, j + 1>> \in Y)
      BY <1>4, <2>2
    <2>5. i # n /\ j < m => (<<i + 1, j + 1>> \in X <=> <<i + 1, j + 1>> \in Y)
      <3>1. ASSUME i # n, j < m PROVE (i + 1) + (j + 1) > i + j
        OBVIOUS
      <3>2. QED BY <1>4, <2>1, <2>2, <3>1
    <2>6. QED BY <2>3, <2>4, <2>5 DEF Entry
  <1>6. ~Differ(i, j)
    BY <1>5 DEF IsTable
  <1>7. QED BY <1>3, <1>6

Places(n, m) == (0 .. n) \X (0 .. m)

\* What the code computes an entry from, and the table it makes.
Computed(n, m, free, take, f, at) ==
    LET i == at[1]  j == at[2]
    IN  IF i = n THEN j = m
        ELSE IF i + 1 \in free
             THEN f[<<i + 1, j>>] \/ (j < m /\ f[<<i, j + 1>>])
             ELSE j < m /\ <<i + 1, j + 1>> \in take /\ f[<<i + 1, j + 1>>]

IsComputed(n, m, free, take, f) ==
    f = [at \in Places(n, m) |-> Computed(n, m, free, take, f, at)]

\* A table as the code computes it is one by its entries,
LEMMA EntriesOfComputed ==
    ASSUME NEW n \in Nat, NEW m \in Nat, NEW free, NEW take, NEW f,
           IsComputed(n, m, free, take, f)
    PROVE  IsTable(n, m, free, take, {at \in Places(n, m) : f[at]})
  <1> DEFINE X == {at \in Places(n, m) : f[at]}
  <1>1. SUFFICES ASSUME NEW i \in 0 .. n, NEW j \in 0 .. m
                 PROVE  <<i, j>> \in X <=> Entry(n, m, free, take, X, i, j)
    BY DEF IsTable
  <1>2. \A k \in 0 .. n, l \in 0 .. m : <<k, l>> \in X <=> f[<<k, l>>]
    BY DEF Places
  <1> HIDE DEF X
  <1>3. f[<<i, j>>] = Computed(n, m, free, take, f, <<i, j>>)
    <2>1. <<i, j>> \in Places(n, m)
      BY DEF Places
    <2>2. QED BY <2>1 DEF IsComputed
  <1>4. i # n => i + 1 \in 0 .. n
    OBVIOUS
  <1>5. j < m => j + 1 \in 0 .. m
    OBVIOUS
  <1>6. CASE i = n
    <2>1. f[<<i, j>>] <=> j = m
      BY <1>3, <1>6 DEF Computed
    <2>2. QED BY <1>2, <1>6, <2>1 DEF Entry
  <1>7. CASE i # n /\ i + 1 \in free
    <2>1. f[<<i, j>>] <=> f[<<i + 1, j>>] \/ (j < m /\ f[<<i, j + 1>>])
      BY <1>3, <1>7 DEF Computed
    <2>2. QED BY <1>2, <1>4, <1>5, <1>7, <2>1 DEF Entry
  <1>8. CASE i # n /\ i + 1 \notin free
    <2>1. f[<<i, j>>] <=> j < m /\ <<i + 1, j + 1>> \in take /\ f[<<i + 1, j + 1>>]
      BY <1>3, <1>8 DEF Computed
    <2>2. QED BY <1>2, <1>4, <1>5, <1>8, <2>1 DEF Entry
  <1>9. QED BY <1>6, <1>7, <1>8

\* and the other way round.
LEMMA ComputedOfEntries ==
    ASSUME NEW n \in Nat, NEW m \in Nat, NEW free, NEW take, NEW X,
           IsTable(n, m, free, take, X)
    PROVE  IsComputed(n, m, free, take, [at \in Places(n, m) |-> at \in X])
  <1> DEFINE f == [at \in Places(n, m) |-> at \in X]
  <1>1. \A k \in 0 .. n, l \in 0 .. m : f[<<k, l>>] = (<<k, l>> \in X)
    BY DEF Places
  <1>2. SUFFICES ASSUME NEW at \in Places(n, m)
                 PROVE  (at \in X) = Computed(n, m, free, take, f, at)
    BY DEF IsComputed
  <1> DEFINE i == at[1]
             j == at[2]
  <1>3. i \in 0 .. n /\ j \in 0 .. m /\ at = <<i, j>>
    BY DEF Places
  <1> HIDE DEF f, i, j
  <1>4. i # n => i + 1 \in 0 .. n
    BY <1>3
  <1>5. j < m => j + 1 \in 0 .. m
    BY <1>3
  <1>6. at \in X <=> Entry(n, m, free, take, X, i, j)
    BY <1>3 DEF IsTable
  <1>7. CASE i = n
    <2>1. at \in X <=> j = m
      BY <1>6, <1>7 DEF Entry
    <2>2. QED BY <1>7, <2>1 DEF Computed, i, j
  <1>8. CASE i # n /\ i + 1 \in free
    <2>1. at \in X <=> f[<<i + 1, j>>] \/ (j < m /\ f[<<i, j + 1>>])
      BY <1>1, <1>3, <1>4, <1>5, <1>6, <1>8 DEF Entry
    <2>2. QED BY <1>8, <2>1 DEF Computed, i, j
  <1>9. CASE i # n /\ i + 1 \notin free
    <2>1. at \in X <=> j < m /\ <<i + 1, j + 1>> \in take /\ f[<<i + 1, j + 1>>]
      BY <1>1, <1>3, <1>4, <1>5, <1>6, <1>9 DEF Entry
    <2>2. QED BY <1>9, <2>1 DEF Computed, i, j
  <1>10. QED BY <1>7, <1>8, <1>9

\* So what the code computes in the table's first corner says whether the parts can
\* end in that way.
LEMMA FirstCorner ==
    ASSUME NEW n \in Nat, NEW m \in Nat, NEW free, NEW take, NEW f,
           IsComputed(n, m, free, take, f)
    PROVE  f[<<0, 0>>] <=> Ends(n, m, free, take, 0, 0)
  <1>1. 0 \in 0 .. n /\ 0 \in 0 .. m
    OBVIOUS
  <1> DEFINE X == {at \in Places(n, m) : f[at]}
             Y == EndsTable(n, m, free, take)
  <1>2. IsTable(n, m, free, take, X) /\ IsTable(n, m, free, take, Y)
    BY EntriesOfComputed, EndsIsTable
  <1>3. <<0, 0>> \in X <=> <<0, 0>> \in Y
    <2> HIDE DEF X, Y
    <2>1. QED BY <1>1, <1>2, OneTable
  <1>4. QED BY <1>1, <1>3 DEF EndsTable, Places

\* A table can be computed.
LEMMA TableExists ==
    ASSUME NEW n \in Nat, NEW m \in Nat, NEW free, NEW take
    PROVE  \E f : IsComputed(n, m, free, take, f)
  BY EndsIsTable, ComputedOfEntries

\* Where no part is free, the parts and the elements are paired.
LEMMA EndsInOrder ==
    ASSUME NEW n \in Nat, NEW m \in Nat, NEW free, NEW take,
           \A k \in 1 .. n : k \notin free
    PROVE  Ends(n, m, free, take, 0, 0) <=> n = m /\ \A k \in 1 .. n : <<k, k>> \in take
  <1>1. ASSUME n = m, \A k \in 1 .. n : <<k, k>> \in take
        PROVE  Ends(n, m, free, take, 0, 0)
    <2> DEFINE end == [k \in 0 .. n |-> k]
    <2>1. end \in [0 .. n -> 0 .. m] /\ end[0] = 0 /\ end[n] = m
      BY <1>1
    <2>2. ASSUME NEW k \in 0 + 1 .. n PROVE Follows(k, free, take, end[k - 1], end[k])
      <3>1. k \in 1 .. n /\ end[k - 1] = k - 1 /\ end[k] = k /\ k = (k - 1) + 1
        OBVIOUS
      <3>2. QED BY <1>1, <3>1 DEF Follows
    <2> HIDE DEF end
    <2>3. QED BY <2>1, <2>2 DEF Ends
  <1>2. ASSUME Ends(n, m, free, take, 0, 0)
        PROVE  n = m /\ \A k \in 1 .. n : <<k, k>> \in take
    <2>1. PICK end \in [0 .. n -> 0 .. m] :
              /\ end[0] = 0 /\ end[n] = m
              /\ \A k \in 0 + 1 .. n : Follows(k, free, take, end[k - 1], end[k])
      BY <1>2 DEF Ends
    <2>2. ASSUME NEW k \in 1 .. n
          PROVE  end[k] = end[k - 1] + 1 /\ <<k, end[k]>> \in take
      <3>1. k \in 0 + 1 .. n
        OBVIOUS
      <3>2. QED BY <2>1, <3>1 DEF Follows
    <2>3. \A k \in 0 .. n : end[k] = k
      <3> DEFINE Wrong == {k \in Nat : k <= n /\ end[k] # k}
      <3>1. SUFFICES ASSUME Wrong # {} PROVE FALSE
        OBVIOUS
      <3>2. PICK k \in Wrong : \A l \in Wrong : k <= l
        <4>1. Wrong \in SUBSET Nat
          OBVIOUS
        <4> HIDE DEF Wrong
        <4>2. QED BY <3>1, <4>1, Least
      <3>3. k # 0 /\ k \in 1 .. n /\ k - 1 \in Nat /\ k - 1 < k
        BY <2>1
      <3>4. k - 1 \notin Wrong
        BY <3>2, <3>3
      <3>5. end[k - 1] = k - 1
        BY <3>3, <3>4
      <3>6. end[k] = k
        <4>1. end[k] = end[k - 1] + 1
          BY <2>2, <3>3
        <4>2. k \in Nat
          BY <3>3
        <4> HIDE DEF Wrong
        <4>3. QED BY <3>5, <4>1, <4>2
      <3>7. QED BY <3>2, <3>6
    <2>4. QED BY <2>1, <2>2, <2>3
  <1>3. QED BY <1>1, <1>2

-------------------------------------------------------------------------------
(* Segments.                                                               *)

Stars(text) == {i \in DOMAIN text : text[i] = Star}

Agree(pattern, value) ==
    {at \in (DOMAIN pattern) \X (DOMAIN value) : pattern[at[1]] = value[at[2]]}

\* A regular expression matches what its letters and stars can end at.
LEMMA TextsByEnds ==
    ASSUME NEW L, NEW pattern \in Seq(L), NEW value \in Seq(L)
    PROVE  MatchString(pattern, value)
               <=> Ends(Len(pattern), Len(value), Stars(pattern), Agree(pattern, value), 0, 0)
  <1> DEFINE n == Len(pattern)
             m == Len(value)
             free == Stars(pattern)
             take == Agree(pattern, value)
             row(f, at) == LET i == at[1]  j == at[2]
                           IN  IF i = Len(pattern) THEN j = Len(value)
                               ELSE IF pattern[i + 1] = Star
                                    THEN f[<<i + 1, j>>] \/ (j < Len(value) /\ f[<<i, j + 1>>])
                                    ELSE /\ j < Len(value) /\ pattern[i + 1] = value[j + 1]
                                         /\ f[<<i + 1, j + 1>>]
             isTable(f) == f = [at \in (0 .. Len(pattern)) \X (0 .. Len(value)) |-> row(f, at)]
             rest == CHOOSE f : isTable(f)
  <1>1. MatchString(pattern, value) = rest[<<0, 0>>]
    BY DEF MatchString
  <1>2. n \in Nat /\ m \in Nat /\ DOMAIN pattern = 1 .. n /\ DOMAIN value = 1 .. m
    OBVIOUS
  <1>3. ASSUME NEW f, NEW at \in Places(n, m)
        PROVE  row(f, at) = Computed(n, m, free, take, f, at)
    <2> DEFINE i == at[1]
               j == at[2]
    <2>1. i \in 0 .. n /\ j \in 0 .. m
      BY DEF Places
    <2> HIDE DEF n, m, free, take, i, j
    <2>2. i # n => i + 1 \in 1 .. n
      BY <1>2, <2>1
    <2>3. j < m => j + 1 \in 1 .. m
      BY <1>2, <2>1
    <2>4. i # n => (pattern[i + 1] = Star <=> i + 1 \in free)
      BY <1>2, <2>2 DEF free, Stars
    <2>5. i # n /\ j < m => (pattern[i + 1] = value[j + 1] <=> <<i + 1, j + 1>> \in take)
      BY <1>2, <2>2, <2>3 DEF take, Agree
    <2>6. QED BY <2>4, <2>5 DEF Computed, i, j, n, m
  <1>4. \A f : isTable(f) <=> IsComputed(n, m, free, take, f)
    <2> SUFFICES ASSUME NEW f
                 PROVE  isTable(f) <=> IsComputed(n, m, free, take, f)
      OBVIOUS
    <2>1. isTable(f) <=> f = [at \in Places(n, m) |-> row(f, at)]
      BY DEF Places
    <2>2. [at \in Places(n, m) |-> row(f, at)]
              = [at \in Places(n, m) |-> Computed(n, m, free, take, f, at)]
      <3> HIDE DEF row, n, m, free, take
      <3>1. QED BY <1>3
    <2> HIDE DEF row, n, m, free, take, isTable
    <2>3. QED BY <2>1, <2>2 DEF IsComputed
  <1> HIDE DEF n, m, free, take, isTable
  <1>5. \E f : isTable(f)
    BY <1>2, <1>4, TableExists
  <1>6. isTable(rest)
    BY <1>5, Zenon
  <1>7. rest[<<0, 0>>] <=> Ends(n, m, free, take, 0, 0)
    BY <1>2, <1>4, <1>6, FirstCorner
  <1>8. QED BY <1>1, <1>7 DEF n, m, free, take

\* The documentation's reading of a segment, by Ends.
LEMMA DocumentedByEnds ==
    ASSUME NEW L, NEW text \in Seq(L), NEW value \in Seq(L), value # <<>>
    PROVE  DocumentedSegment(text, value)
               <=> Ends(Len(text), Len(value), Stars(text), Agree(text, value), 0, 0)
  <1> DEFINE n == Len(text)
             m == Len(value)
             Fits(end, k) == IF text[k] = Star THEN end[k - 1] <= end[k]
                             ELSE end[k] = end[k - 1] + 1 /\ text[k] = value[end[k]]
  <1>1. n \in Nat /\ m \in Nat /\ DOMAIN text = 1 .. n /\ DOMAIN value = 1 .. m
    OBVIOUS
  <1>2. DocumentedSegment(text, value)
            <=> \E end \in [0 .. n -> 0 .. m] :
                    end[0] = 0 /\ end[n] = m /\ \A k \in DOMAIN text : Fits(end, k)
    BY DEF DocumentedSegment, Spans
  <1>3. ASSUME NEW end \in [0 .. n -> 0 .. m], NEW k \in 1 .. n
        PROVE  Fits(end, k) <=> Follows(k, Stars(text), Agree(text, value), end[k - 1], end[k])
    <2> HIDE DEF n, m
    <2>1. k \in 0 .. n /\ k - 1 \in 0 .. n
      BY <1>1
    <2>2. end[k] \in 0 .. m /\ end[k - 1] \in 0 .. m
      BY <2>1
    <2>3. text[k] = Star <=> k \in Stars(text)
      BY <1>1 DEF Stars
    <2>4. end[k] = end[k - 1] + 1 => end[k] \in DOMAIN value
      BY <1>1, <2>2
    <2>5. end[k] \in DOMAIN value => (text[k] = value[end[k]] <=> <<k, end[k]>> \in Agree(text, value))
      BY <1>1 DEF Agree
    <2>6. QED BY <2>3, <2>4, <2>5 DEF Follows
  <1> HIDE DEF n, m, Fits
  <1>4. 0 + 1 = 1
    OBVIOUS
  <1>5. QED BY <1>1, <1>2, <1>3, <1>4 DEF Ends, n, m

\* What compileSegment makes of a text, one case after the other.
LEMMA KindOfSegment ==
    ASSUME NEW L, NEW text \in Seq(L)
    PROVE  compileSegment(text)
               = [kind |-> IF text = <<Star, Star>> THEN "globstar"
                           ELSE IF HasGlobstar(text) THEN "error"
                           ELSE IF text = <<Star>> THEN "any"
                           ELSE IF ~HasStar(text) THEN "literal" ELSE "pattern",
                  text |-> text]
  <1>1. <<Star>> # <<Star, Star>> /\ ~HasGlobstar(<<Star>>) /\ HasStar(<<Star>>)
    BY DEF HasGlobstar, HasStar
  <1>2. ASSUME HasGlobstar(text) PROVE HasStar(text)
    BY <1>2 DEF HasGlobstar, HasStar
  <1>3. HasStar(<<Star, Star>>)
    BY DEF HasStar
  <1>4. CASE text = <<Star, Star>>
    BY <1>1, <1>3, <1>4 DEF compileSegment
  <1>5. CASE text # <<Star, Star>> /\ HasGlobstar(text)
    <2>1. text # <<Star>>
      BY <1>1, <1>5
    <2>2. QED BY <1>2, <1>5, <2>1 DEF compileSegment
  <1>6. CASE text = <<Star>>
    BY <1>1, <1>6 DEF compileSegment
  <1>7. CASE text # <<Star, Star>> /\ ~HasGlobstar(text) /\ text # <<Star>> /\ ~HasStar(text)
    BY <1>7 DEF compileSegment
  <1>8. CASE text # <<Star, Star>> /\ ~HasGlobstar(text) /\ text # <<Star>> /\ HasStar(text)
    BY <1>8 DEF compileSegment
  <1>9. QED BY <1>4, <1>5, <1>6, <1>7, <1>8

\* A segment is a "**" exactly if it compiles to one.
LEMMA KindOfGlobstar ==
    ASSUME NEW L, NEW text \in Seq(L)
    PROVE  compileSegment(text).kind = "globstar" <=> text = <<Star, Star>>
  BY KindOfSegment

\* A star between letters leaves a letter to be matched.
LEMMA PatternsTakeLetters ==
    ASSUME NEW L, NEW text \in Seq(L), compileSegment(text).kind = "pattern"
    PROVE  \E k \in 1 .. Len(text) : text[k] # Star
  <1>1. HasStar(text) /\ text # <<Star>> /\ text # <<Star, Star>> /\ ~HasGlobstar(text)
    BY KindOfSegment
  <1>2. PICK k \in 1 .. Len(text) : text[k] = Star
    BY <1>1 DEF HasStar
  <1>3. Len(text) # 1
    <2>1. ASSUME Len(text) = 1 PROVE text = <<Star>>
      BY <1>2, <2>1
    <2>2. QED BY <1>1, <2>1
  <1>4. Len(text) \in Nat /\ 1 \in 1 .. Len(text) - 1 /\ 1 \in 1 .. Len(text) /\ 2 \in 1 .. Len(text)
    <2>1. Len(text) \in Nat /\ Len(text) # 0
      BY <1>2
    <2>2. \A n \in Nat : n # 0 /\ n # 1 => 1 \in 1 .. n - 1 /\ 1 \in 1 .. n /\ 2 \in 1 .. n
      OBVIOUS
    <2>3. QED BY <1>3, <2>1, <2>2
  <1>5. ~(text[1] = Star /\ text[1 + 1] = Star)
    BY <1>1, <1>4 DEF HasGlobstar
  <1>6. 1 + 1 = 2
    OBVIOUS
  <1>7. QED BY <1>4, <1>5, <1>6

\* A segment that is not a globstar matches the values the documentation says.
LEMMA SegmentsAsDocumented ==
    ASSUME NEW L, NEW text \in Seq(L), NEW value \in Seq(L),
           compileSegment(text).kind \notin {"error", "globstar"}
    PROVE  segmentMatches(compileSegment(text), value) <=> DocumentedSegment(text, value)
  <1> DEFINE segment == compileSegment(text)
             n == Len(text)
             m == Len(value)
  <1>1. /\ text # <<Star, Star>> /\ ~HasGlobstar(text)
        /\ segment.text = text
        /\ segment.kind = IF text = <<Star>> THEN "any"
                          ELSE IF ~HasStar(text) THEN "literal" ELSE "pattern"
    BY KindOfSegment
  <1>2. n \in Nat /\ m \in Nat /\ DOMAIN text = 1 .. n /\ DOMAIN value = 1 .. m
    OBVIOUS
  <1>3. CASE text = <<Star>>
    <2>1. segmentMatches(segment, value) <=> value # <<>>
      BY <1>1, <1>3 DEF segmentMatches
    <2>2. ASSUME value # <<>> PROVE DocumentedSegment(text, value)
      <3> DEFINE end == [k \in 0 .. 1 |-> IF k = 0 THEN 0 ELSE m]
      <3>1. n = 1 /\ Stars(text) = {1}
        BY <1>3 DEF Stars
      <3>2. end \in [0 .. 1 -> 0 .. m] /\ end[0] = 0 /\ end[1] = m
        OBVIOUS
      <3>3. \A k \in 0 + 1 .. 1 : Follows(k, {1}, Agree(text, value), end[k - 1], end[k])
        <4>1. \A k \in 0 + 1 .. 1 : k = 1 /\ k - 1 = 0
          OBVIOUS
        <4>2. 0 <= m
          BY <1>2
        <4> HIDE DEF end
        <4>3. QED BY <3>2, <4>1, <4>2 DEF Follows
      <3>4. Ends(1, m, {1}, Agree(text, value), 0, 0)
        <4> HIDE DEF end
        <4>1. QED BY <3>2, <3>3 DEF Ends
      <3>5. QED BY <2>2, <3>1, <3>4, DocumentedByEnds
    <2>3. ASSUME value = <<>> PROVE ~DocumentedSegment(text, value)
      BY <1>3, <2>3 DEF DocumentedSegment
    <2>4. QED BY <2>1, <2>2, <2>3
  <1>4. CASE text # <<Star>> /\ ~HasStar(text)
    <2>1. segmentMatches(segment, value) <=> value = text
      BY <1>1, <1>4 DEF segmentMatches
    <2>2. ASSUME value # <<>> PROVE DocumentedSegment(text, value) <=> value = text
      <3>1. DocumentedSegment(text, value)
                <=> Ends(n, m, Stars(text), Agree(text, value), 0, 0)
        BY <2>2, DocumentedByEnds
      <3>2. \A k \in 1 .. n : k \notin Stars(text)
        BY <1>4 DEF HasStar, Stars
      <3>3. Ends(n, m, Stars(text), Agree(text, value), 0, 0)
                <=> n = m /\ \A k \in 1 .. n : <<k, k>> \in Agree(text, value)
        <4> HIDE DEF n, m
        <4>1. QED BY <1>2, <3>2, EndsInOrder
      <3>4. (n = m /\ \A k \in 1 .. n : <<k, k>> \in Agree(text, value))
                <=> n = m /\ \A k \in 1 .. n : text[k] = value[k]
        BY <1>2 DEF Agree
      <3>5. (n = m /\ \A k \in 1 .. n : text[k] = value[k]) <=> value = text
        OBVIOUS
      <3>6. QED BY <3>1, <3>3, <3>4, <3>5
    <2>3. ASSUME value = <<>> PROVE DocumentedSegment(text, value) <=> value = text
      BY <2>3 DEF DocumentedSegment
    <2>4. QED BY <2>1, <2>2, <2>3
  <1>5. CASE text # <<Star>> /\ HasStar(text)
    <2>1. segmentMatches(segment, value)
              <=> Ends(n, m, Stars(text), Agree(text, value), 0, 0)
      BY <1>1, <1>5, TextsByEnds DEF segmentMatches
    <2>2. ASSUME value # <<>>
          PROVE  segmentMatches(segment, value) <=> DocumentedSegment(text, value)
      BY <2>1, <2>2, DocumentedByEnds
    <2>3. ASSUME value = <<>>
          PROVE  segmentMatches(segment, value) <=> DocumentedSegment(text, value)
      <3>1. ~DocumentedSegment(text, value)
        <4>1. text # <<>>
          BY <1>5 DEF HasStar
        <4>2. QED BY <2>3, <4>1 DEF DocumentedSegment
      <3>2. ASSUME Ends(n, m, Stars(text), Agree(text, value), 0, 0) PROVE FALSE
        <4>1. m = 0
          BY <2>3
        <4>2. PICK k \in 1 .. n : text[k] # Star
          <5>1. segment.kind = "pattern"
            BY <1>1, <1>5
          <5>2. QED BY <5>1, PatternsTakeLetters
        <4>3. PICK end \in [0 .. n -> 0 .. m] :
                  \A l \in 0 + 1 .. n :
                      Follows(l, Stars(text), Agree(text, value), end[l - 1], end[l])
          BY <3>2 DEF Ends
        <4> HIDE DEF n, m
        <4>4. k \in 0 + 1 .. n /\ k \in 0 .. n /\ k - 1 \in 0 .. n
          BY <1>2
        <4>5. k \notin Stars(text)
          BY <4>2 DEF Stars
        <4>6. end[k] = end[k - 1] + 1
          BY <4>3, <4>4, <4>5 DEF Follows
        <4>7. end[k] \in 0 .. 0 /\ end[k - 1] \in 0 .. 0
          BY <4>1, <4>4
        <4>8. QED BY <4>6, <4>7
      <3>3. QED BY <2>1, <3>1, <3>2
    <2>4. QED BY <2>2, <2>3
  <1>6. QED BY <1>3, <1>4, <1>5

-------------------------------------------------------------------------------
(* Paths.                                                                  *)

Globstars(pattern) == {i \in DOMAIN pattern : pattern[i] = <<Star, Star>>}

Suits(pattern, path) ==
    {at \in (DOMAIN pattern) \X (DOMAIN path) : DocumentedSegment(pattern[at[1]], path[at[2]])}

\* The documentation's reading of a path, by Ends.
LEMMA PathsByEnds ==
    ASSUME NEW L, NEW pattern \in Seq(Seq(L)), NEW path \in Seq(Seq(L))
    PROVE  DocumentedPath(pattern, path)
               <=> Ends(Len(pattern), Len(path), Globstars(pattern), Suits(pattern, path), 0, 0)
  <1> DEFINE n == Len(pattern)
             m == Len(path)
             Fits(end, k) == IF pattern[k] = <<Star, Star>> THEN end[k - 1] <= end[k]
                             ELSE /\ end[k] = end[k - 1] + 1
                                  /\ DocumentedSegment(pattern[k], path[end[k]])
  <1>1. n \in Nat /\ m \in Nat /\ DOMAIN pattern = 1 .. n /\ DOMAIN path = 1 .. m
    OBVIOUS
  <1>2. DocumentedPath(pattern, path)
            <=> \E end \in [0 .. n -> 0 .. m] :
                    end[0] = 0 /\ end[n] = m /\ \A k \in DOMAIN pattern : Fits(end, k)
    BY DEF DocumentedPath, Spans
  <1>3. ASSUME NEW end \in [0 .. n -> 0 .. m], NEW k \in 1 .. n
        PROVE  Fits(end, k)
                   <=> Follows(k, Globstars(pattern), Suits(pattern, path), end[k - 1], end[k])
    <2> HIDE DEF n, m
    <2>1. k \in 0 .. n /\ k - 1 \in 0 .. n
      BY <1>1
    <2>2. end[k] \in 0 .. m /\ end[k - 1] \in 0 .. m
      BY <2>1
    <2>3. pattern[k] = <<Star, Star>> <=> k \in Globstars(pattern)
      BY <1>1 DEF Globstars
    <2>4. end[k] = end[k - 1] + 1 => end[k] \in DOMAIN path
      BY <1>1, <2>2
    <2>5. end[k] \in DOMAIN path
              => (DocumentedSegment(pattern[k], path[end[k]]) <=> <<k, end[k]>> \in Suits(pattern, path))
      BY <1>1 DEF Suits
    <2>6. QED BY <2>3, <2>4, <2>5 DEF Follows
  <1> HIDE DEF n, m, Fits
  <1>4. 0 + 1 = 1
    OBVIOUS
  <1>5. QED BY <1>1, <1>2, <1>3, <1>4 DEF Ends, n, m

\* The segments of a pattern that compiles.
LEMMA SegmentsOfPath ==
    ASSUME NEW L, NEW pattern \in Seq(Seq(L)), NEW path \in Seq(Seq(L)), Compiles(pattern)
    PROVE  /\ Len(compilePath(pattern)) = Len(pattern)
           /\ DOMAIN compilePath(pattern) = 1 .. Len(pattern)
           /\ \A i \in 1 .. Len(pattern) :
                  /\ compilePath(pattern)[i].kind = "globstar" <=> i \in Globstars(pattern)
                  /\ i \notin Globstars(pattern) =>
                         \A j \in 1 .. Len(path) :
                             segmentMatches(compilePath(pattern)[i], path[j])
                                 <=> <<i, j>> \in Suits(pattern, path)
  <1> DEFINE n == Len(pattern)
             segments == compilePath(pattern)
  <1>1. n \in Nat /\ DOMAIN pattern = 1 .. n /\ DOMAIN path = 1 .. Len(path)
    OBVIOUS
  <1>2. segments = [i \in 1 .. n |-> compileSegment(pattern[i])]
    BY <1>1 DEF compilePath
  <1>3. Len(segments) = n /\ DOMAIN segments = 1 .. n
    <2> HIDE DEF n, segments
    <2>1. QED BY <1>1, <1>2
  <1>4. ASSUME NEW i \in 1 .. n
        PROVE  /\ segments[i] = compileSegment(pattern[i])
               /\ pattern[i] \in Seq(L)
               /\ compileSegment(pattern[i]).kind # "error"
               /\ compileSegment(pattern[i]).kind = "globstar" <=> i \in Globstars(pattern)
    <2>1. segments[i] = compileSegment(pattern[i])
      <3> HIDE DEF n, segments
      <3>1. QED BY <1>2
    <2>2. pattern[i] \in Seq(L)
      OBVIOUS
    <2>3. compileSegment(pattern[i]).kind # "error"
      BY <1>1 DEF Compiles
    <2>4. compileSegment(pattern[i]).kind = "globstar" <=> pattern[i] = <<Star, Star>>
      BY <2>2, KindOfGlobstar
    <2>5. pattern[i] = <<Star, Star>> <=> i \in Globstars(pattern)
      BY <1>1 DEF Globstars
    <2>6. QED BY <2>1, <2>2, <2>3, <2>4, <2>5
  <1>5. ASSUME NEW i \in 1 .. n, i \notin Globstars(pattern), NEW j \in 1 .. Len(path)
        PROVE  segmentMatches(segments[i], path[j]) <=> <<i, j>> \in Suits(pattern, path)
    <2>1. path[j] \in Seq(L)
      OBVIOUS
    <2>2. segmentMatches(compileSegment(pattern[i]), path[j]) <=> DocumentedSegment(pattern[i], path[j])
      BY <1>4, <1>5, <2>1, SegmentsAsDocumented
    <2>3. <<i, j>> \in Suits(pattern, path) <=> DocumentedSegment(pattern[i], path[j])
      BY <1>1 DEF Suits
    <2>4. QED BY <1>4, <2>2, <2>3
  <1> HIDE DEF n, segments
  <1>6. QED BY <1>3, <1>4, <1>5 DEF n, segments

\* With a globstar: the table of the code.
LEMMA SegmentsByEnds ==
    ASSUME NEW L, NEW pattern \in Seq(Seq(L)), NEW path \in Seq(Seq(L)), Compiles(pattern)
    PROVE  matchesSegments(compilePath(pattern), path)
               <=> Ends(Len(pattern), Len(path), Globstars(pattern), Suits(pattern, path), 0, 0)
  <1> DEFINE segments == compilePath(pattern)
             n == Len(segments)
             m == Len(path)
             free == Globstars(pattern)
             take == Suits(pattern, path)
             row(f, at) == LET i == at[1]  j == at[2]  remaining == j < Len(path)
                           IN  IF i = Len(segments) THEN j = Len(path)
                               ELSE IF segments[i + 1].kind = "globstar"
                                    THEN f[<<i + 1, j>>] \/ (remaining /\ f[<<i, j + 1>>])
                                    ELSE /\ remaining /\ f[<<i + 1, j + 1>>]
                                         /\ segmentMatches(segments[i + 1], path[j + 1])
             isTable(f) == f = [at \in (0 .. Len(segments)) \X (0 .. Len(path)) |-> row(f, at)]
             matched == CHOOSE f : isTable(f)
  <1>1. matchesSegments(segments, path) = matched[<<0, 0>>]
    BY DEF matchesSegments
  <1>2. /\ n = Len(pattern) /\ n \in Nat /\ m \in Nat
        /\ \A i \in 1 .. n :
               /\ segments[i].kind = "globstar" <=> i \in free
               /\ i \notin free => \A j \in 1 .. m : segmentMatches(segments[i], path[j]) <=> <<i, j>> \in take
    BY SegmentsOfPath
  <1>3. ASSUME NEW f, NEW at \in Places(n, m)
        PROVE  row(f, at) = Computed(n, m, free, take, f, at)
    <2> DEFINE i == at[1]
               j == at[2]
    <2>1. i \in 0 .. n /\ j \in 0 .. m
      BY DEF Places
    <2> HIDE DEF n, m, free, take, segments, i, j
    <2>2. i # n => i + 1 \in 1 .. n
      BY <1>2, <2>1
    <2>3. j < m => j + 1 \in 1 .. m
      BY <1>2, <2>1
    <2>4. i # n => (segments[i + 1].kind = "globstar" <=> i + 1 \in free)
      BY <1>2, <2>2
    <2>5. i # n /\ i + 1 \notin free /\ j < m
              => (segmentMatches(segments[i + 1], path[j + 1]) <=> <<i + 1, j + 1>> \in take)
      BY <1>2, <2>2, <2>3
    <2>6. QED BY <2>4, <2>5 DEF Computed, i, j, n, m
  <1>4. \A f : isTable(f) <=> IsComputed(n, m, free, take, f)
    <2> SUFFICES ASSUME NEW f
                 PROVE  isTable(f) <=> IsComputed(n, m, free, take, f)
      OBVIOUS
    <2>1. isTable(f) <=> f = [at \in Places(n, m) |-> row(f, at)]
      BY DEF Places
    <2>2. [at \in Places(n, m) |-> row(f, at)]
              = [at \in Places(n, m) |-> Computed(n, m, free, take, f, at)]
      <3> HIDE DEF row, n, m, free, take
      <3>1. QED BY <1>3
    <2> HIDE DEF row, n, m, free, take, isTable
    <2>3. QED BY <2>1, <2>2 DEF IsComputed
  <1> HIDE DEF n, m, free, take, isTable
  <1>5. \E f : isTable(f)
    BY <1>2, <1>4, TableExists
  <1>6. isTable(matched)
    BY <1>5, Zenon
  <1>7. matched[<<0, 0>>] <=> Ends(n, m, free, take, 0, 0)
    BY <1>2, <1>4, <1>6, FirstCorner
  <1>8. QED BY <1>1, <1>2, <1>7 DEF m, free, take

\* Without a globstar: the loop of the code.
LEMMA InOrder ==
    ASSUME NEW segments, NEW path, NEW n \in Nat, NEW m \in Nat,
           n # 0, n = Len(segments), DOMAIN segments = 1 .. n, m = Len(path)
    PROVE  matchesInOrder(segments, path)
               <=> n = m /\ \A i \in 1 .. n : segmentMatches(segments[i], path[i])
  <1> DEFINE Fits(i) == segmentMatches(segments[i], path[i])
             Rest(i) == n = m /\ \A k \in i .. n : Fits(k)
             row(f, i) == /\ segmentMatches(segments[i], path[i])
                          /\ IF i = Len(segments) THEN i = Len(path) ELSE i < Len(path) /\ f[i + 1]
             isFrom(f) == f = [i \in DOMAIN segments |-> row(f, i)]
             from == CHOOSE f : isFrom(f)
  <1>1. matchesInOrder(segments, path) = from[1]
    BY DEF matchesInOrder
  <1>2. ASSUME NEW f, NEW i \in 1 .. n
        PROVE  row(f, i) <=> Fits(i) /\ IF i = n THEN i = m ELSE i < m /\ f[i + 1]
    OBVIOUS
  <1>3. ASSUME NEW i \in 1 .. n
        PROVE  Rest(i) <=> Fits(i) /\ IF i = n THEN i = m ELSE i < m /\ Rest(i + 1)
    <2> HIDE DEF Fits
    <2>1. \A k \in i .. n : k = i \/ k \in i + 1 .. n
      OBVIOUS
    <2>2. i \in i .. n /\ \A k \in i + 1 .. n : k \in i .. n
      OBVIOUS
    <2>3. i = n => i + 1 .. n = {}
      OBVIOUS
    <2>4. Rest(i) <=> n = m /\ Fits(i) /\ \A k \in i + 1 .. n : Fits(k)
      BY <2>1, <2>2
    <2>5. QED BY <2>3, <2>4
  <1>4. isFrom([i \in 1 .. n |-> Rest(i)])
    <2> DEFINE f == [i \in 1 .. n |-> Rest(i)]
    <2>1. ASSUME NEW i \in 1 .. n PROVE Rest(i) <=> row(f, i)
      <3>1. i # n => i + 1 \in 1 .. n
        OBVIOUS
      <3>2. i # n => (f[i + 1] <=> Rest(i + 1))
        <4> HIDE DEF Rest
        <4>1. QED BY <3>1
      <3> HIDE DEF Rest, Fits, f, row
      <3>3. QED BY <1>2, <1>3, <3>2
    <2>2. ASSUME NEW i \in 1 .. n PROVE Rest(i) = row(f, i)
      <3>1. row(f, i) \in BOOLEAN /\ Rest(i) \in BOOLEAN
        OBVIOUS
      <3> HIDE DEF row, Rest, f
      <3>2. QED BY <2>1, <3>1
    <2>3. f = [i \in 1 .. n |-> row(f, i)]
      <3> HIDE DEF row, Rest
      <3>1. QED BY <2>2
    <2> HIDE DEF row, Rest, f
    <2>4. QED BY <2>3 DEF f
  <1>5. isFrom(from)
    <2> HIDE DEF isFrom
    <2>1. \E f : isFrom(f)
      BY <1>4
    <2>2. QED BY <2>1, Zenon
  <1>6. ASSUME NEW i \in 1 .. n
        PROVE  from[i] <=> Fits(i) /\ IF i = n THEN i = m ELSE i < m /\ from[i + 1]
    <2>1. from[i] = row(from, i)
      <3> HIDE DEF row, from
      <3>1. QED BY <1>5
    <2> HIDE DEF row, from, Fits
    <2>2. QED BY <1>2, <2>1
  <1>7. \A i \in 1 .. n : from[i] <=> Rest(i)
    <2> DEFINE Differ(i) == ~(from[i] <=> Rest(i))
               Ranks == {r \in Nat : r < n /\ Differ(n - r)}
    <2> HIDE DEF from, Rest, Fits
    <2>1. SUFFICES ASSUME NEW a \in 1 .. n, Differ(a) PROVE FALSE
      OBVIOUS
    <2>2. n - a \in Ranks
      <3>1. n - a \in Nat /\ n - a < n /\ n - (n - a) = a
        OBVIOUS
      <3> HIDE DEF Differ
      <3>2. QED BY <2>1, <3>1
    <2>3. PICK r \in Ranks : \A s \in Ranks : r <= s
      <3>1. Ranks \in SUBSET Nat /\ Ranks # {}
        BY <2>2
      <3> HIDE DEF Ranks
      <3>2. QED BY <3>1, Least
    <2> DEFINE i == n - r
    <2>4. r \in Nat /\ r < n /\ Differ(i)
      OBVIOUS
    <2>5. i \in 1 .. n
      BY <2>4
    <2>6. i # n => i + 1 \in 1 .. n /\ ~Differ(i + 1)
      <3>1. SUFFICES ASSUME i # n PROVE i + 1 \in 1 .. n /\ ~Differ(i + 1)
        OBVIOUS
      <3>2. r - 1 \in Nat /\ r - 1 < n /\ n - (r - 1) = i + 1 /\ ~(r <= r - 1) /\ i + 1 \in 1 .. n
        BY <2>4, <3>1
      <3> HIDE DEF Differ
      <3>3. QED BY <2>3, <3>2
    <2> HIDE DEF i
    <2>7. from[i] <=> Rest(i)
      BY <1>3, <1>6, <2>5, <2>6
    <2>8. QED BY <2>4, <2>7
  <1>8. 1 \in 1 .. n
    OBVIOUS
  <1> HIDE DEF from
  <1>9. QED BY <1>1, <1>7, <1>8

\* A pattern matches the paths the documentation says.
LEMMA PathsAsDocumented ==
    ASSUME NEW L, NEW pattern \in Seq(Seq(L)), pattern # <<>>, NEW path \in Seq(Seq(L)),
           Compiles(pattern)
    PROVE  matches(compilePath(pattern), path) <=> DocumentedPath(pattern, path)
  <1> DEFINE segments == compilePath(pattern)
             n == Len(pattern)
             m == Len(path)
             free == Globstars(pattern)
             take == Suits(pattern, path)
  <1>1. n \in Nat /\ n # 0 /\ m \in Nat /\ DOMAIN pattern = 1 .. n
    OBVIOUS
  <1>2. /\ Len(segments) = n /\ DOMAIN segments = 1 .. n
        /\ \A i \in 1 .. n :
               /\ segments[i].kind = "globstar" <=> i \in free
               /\ i \notin free => \A j \in 1 .. m : segmentMatches(segments[i], path[j]) <=> <<i, j>> \in take
    BY SegmentsOfPath
  <1>3. CASE \E i \in 1 .. n : i \in free
    <2>1. matches(segments, path) <=> matchesSegments(segments, path)
      <3> HIDE DEF segments, n, free
      <3>1. QED BY <1>2, <1>3 DEF matches
    <2>2. QED BY <2>1, SegmentsByEnds, PathsByEnds
  <1>4. CASE \A i \in 1 .. n : i \notin free
    <2>1. matches(segments, path) <=> matchesInOrder(segments, path)
      <3> HIDE DEF segments, n, free
      <3>1. QED BY <1>2, <1>4 DEF matches
    <2>2. matchesInOrder(segments, path)
              <=> n = m /\ \A i \in 1 .. n : segmentMatches(segments[i], path[i])
      <3>1. m = Len(path)
        OBVIOUS
      <3> HIDE DEF segments, n, m
      <3>2. QED BY <1>1, <1>2, <3>1, InOrder
    <2>3. (n = m /\ \A i \in 1 .. n : segmentMatches(segments[i], path[i]))
              <=> n = m /\ \A i \in 1 .. n : <<i, i>> \in take
      <3> HIDE DEF segments, n, m, free, take
      <3>1. QED BY <1>2, <1>4
    <2>4. Ends(n, m, free, take, 0, 0) <=> n = m /\ \A i \in 1 .. n : <<i, i>> \in take
      <3> HIDE DEF n, m, free, take
      <3>1. QED BY <1>1, <1>4, EndsInOrder
    <2>5. DocumentedPath(pattern, path) <=> Ends(n, m, free, take, 0, 0)
      BY PathsByEnds
    <2>6. QED BY <2>1, <2>2, <2>3, <2>4, <2>5
  <1>5. QED BY <1>3, <1>4

-------------------------------------------------------------------------------
(* Rules.                                                                  *)

Takes(matcher, method, path, i) ==
    /\ matcher[i].enabled /\ matcher[i].method \in {"", method}
    /\ matches(matcher[i].path, path)

\* The rule v is the first from i on that takes the request, and 0 says there is none.
IsFirst(D, i, v) ==
    \/ v = 0 /\ \A k \in D : k < i
    \/ v \in D /\ v >= i /\ \A k \in D : k >= i => v <= k

\* Match returns the first rule that takes the request.
LEMMA MatchIsFirst ==
    ASSUME NEW matcher, NEW n \in Nat, n = Len(matcher), NEW method, NEW path
    PROVE  IsFirst({i \in 1 .. n : Takes(matcher, method, path, i)}, 1, Match(matcher, method, path))
  <1> DEFINE D == {i \in 1 .. n : Takes(matcher, method, path, i)}
             row(f, i) == CASE i > Len(matcher) -> 0
                            [] i <= Len(matcher) /\ matcher[i].enabled
                                 /\ matcher[i].method \in {"", method} /\ matches(matcher[i].path, path) -> i
                            [] OTHER -> f[i + 1]
             isFrom(f) == f = [i \in 1 .. Len(matcher) + 1 |-> row(f, i)]
             from == CHOOSE f : isFrom(f)
             first == [i \in 1 .. n + 1 |-> CHOOSE v : IsFirst(D, i, v)]
  <1>1. Match(matcher, method, path) = from[1]
    BY DEF Match
  <1>2. ASSUME NEW f, NEW i \in 1 .. n + 1
        PROVE  row(f, i) = IF i > n THEN 0 ELSE IF i \in D THEN i ELSE f[i + 1]
    <2>1. CASE i > n
      <3>1. i > Len(matcher) /\ ~(i <= Len(matcher))
        BY <2>1
      <3>2. row(f, i) = 0
        BY <3>1
      <3> HIDE DEF D, row
      <3>3. QED BY <2>1, <3>2
    <2>2. CASE ~(i > n)
      <3>1. i \in 1 .. n /\ i <= n
        BY <2>2
      <3>2. i \in D <=> Takes(matcher, method, path, i)
        BY <3>1
      <3> HIDE DEF D
      <3>3. QED BY <2>2, <3>1, <3>2 DEF Takes
    <2>3. QED BY <2>1, <2>2
  <1>3. D \subseteq 1 .. n
    OBVIOUS
  <1> HIDE DEF D, row
  <1>4. ASSUME NEW i \in 1 .. n + 1 PROVE \E v : IsFirst(D, i, v)
    <2> DEFINE Later == {k \in D : k >= i}
    <2>1. CASE Later = {}
      <3>1. \A k \in D : k < i
        BY <1>3, <2>1
      <3>2. IsFirst(D, i, 0)
        BY <3>1 DEF IsFirst
      <3>3. QED BY <3>2
    <2>2. CASE Later # {}
      <3>1. Later \in SUBSET Nat
        <4>1. \A k \in 1 .. n : k \in Nat
          OBVIOUS
        <4>2. QED BY <1>3, <4>1
      <3>2. PICK v \in Later : \A k \in Later : v <= k
        <4> HIDE DEF Later
        <4>1. QED BY <2>2, <3>1, Least
      <3>3. IsFirst(D, i, v)
        BY <3>2 DEF IsFirst
      <3>4. QED BY <3>3
    <2>3. QED BY <2>1, <2>2
  <1>5. ASSUME NEW i \in 1 .. n + 1, NEW v, NEW w, IsFirst(D, i, v), IsFirst(D, i, w)
        PROVE  v = w
    <2>1. \A k \in 1 .. n : k \in Int
      OBVIOUS
    <2>2. \A k \in D : k \in Int
      BY <1>3, <2>1
    <2>3. v \in Int /\ w \in Int
      BY <1>5, <2>2 DEF IsFirst
    <2>4. \A k \in D : ~(k < i) <=> k >= i
      BY <2>2
    <2>5. v \in D => w \in D /\ v <= w /\ w <= v
      BY <1>5, <2>4 DEF IsFirst
    <2>6. v \notin D => v = 0 /\ w = 0
      BY <1>5, <2>4 DEF IsFirst
    <2>7. QED BY <2>3, <2>5, <2>6
  <1>6. ASSUME NEW i \in 1 .. n + 1, NEW v, i \notin D, i <= n, IsFirst(D, i + 1, v)
        PROVE  IsFirst(D, i, v)
    <2>1. \A k \in D : k \in Int /\ k # i
      BY <1>3, <1>6
    <2>2. \A k \in D : (k >= i <=> k >= i + 1) /\ (k < i <=> k < i + 1)
      BY <2>1
    <2>3. QED BY <1>6, <2>2 DEF IsFirst
  <1>7. ASSUME NEW i \in D PROVE IsFirst(D, i, i)
    <2>1. i \in Int
      BY <1>3
    <2>2. QED BY <2>1 DEF IsFirst
  <1>8. IsFirst(D, n + 1, 0)
    BY <1>3 DEF IsFirst
  <1>9. isFrom(first)
    <2>1. ASSUME NEW i \in 1 .. n + 1 PROVE IsFirst(D, i, first[i])
      BY <1>4, Zenon
    <2>2. ASSUME NEW i \in 1 .. n + 1 PROVE first[i] = row(first, i)
      <3> HIDE DEF first
      <3>1. IsFirst(D, i, row(first, i))
        <4>1. CASE i > n
          <5>1. i = n + 1
            BY <4>1
          <5>2. QED BY <1>2, <1>8, <4>1, <5>1
        <4>2. CASE ~(i > n) /\ i \in D
          BY <1>2, <1>7, <4>2
        <4>3. CASE ~(i > n) /\ i \notin D
          <5>1. i + 1 \in 1 .. n + 1 /\ i <= n
            BY <4>3
          <5>2. IsFirst(D, i, first[i + 1])
            BY <1>6, <2>1, <4>3, <5>1
          <5>3. QED BY <1>2, <4>3, <5>2
        <4>4. QED BY <4>1, <4>2, <4>3
      <3>2. QED BY <1>5, <2>1, <3>1
    <2>3. first = [i \in 1 .. n + 1 |-> first[i]]
      OBVIOUS
    <2> HIDE DEF first
    <2>4. first = [i \in 1 .. n + 1 |-> row(first, i)]
      BY <2>2, <2>3
    <2>5. QED BY <2>4
  <1>10. isFrom(from)
    <2> HIDE DEF isFrom, first
    <2>1. \E f : isFrom(f)
      BY <1>9
    <2>2. QED BY <2>1, Zenon
  <1> HIDE DEF first
  <1>11. ASSUME NEW i \in 1 .. n + 1
         PROVE  from[i] = IF i > n THEN 0 ELSE IF i \in D THEN i ELSE from[i + 1]
    <2>1. from[i] = row(from, i)
      <3> HIDE DEF from
      <3>1. QED BY <1>10
    <2> HIDE DEF from
    <2>2. QED BY <1>2, <2>1
  <1> HIDE DEF from
  <1>12. \A i \in 1 .. n + 1 : IsFirst(D, i, from[i])
    <2> DEFINE Wrong(i) == ~IsFirst(D, i, from[i])
               Ranks == {r \in Nat : r <= n /\ Wrong(n + 1 - r)}
    <2>1. SUFFICES ASSUME NEW a \in 1 .. n + 1, Wrong(a) PROVE FALSE
      OBVIOUS
    <2>2. n + 1 - a \in Ranks
      <3>1. n + 1 - a \in Nat /\ n + 1 - a <= n /\ n + 1 - (n + 1 - a) = a
        OBVIOUS
      <3> HIDE DEF Wrong
      <3>2. QED BY <2>1, <3>1
    <2>3. PICK r \in Ranks : \A s \in Ranks : r <= s
      <3>1. Ranks \in SUBSET Nat /\ Ranks # {}
        BY <2>2
      <3> HIDE DEF Ranks
      <3>2. QED BY <3>1, Least
    <2> DEFINE i == n + 1 - r
    <2>4. r \in Nat /\ r <= n /\ Wrong(i)
      OBVIOUS
    <2>5. i \in 1 .. n + 1
      BY <2>4
    <2>6. i <= n => i + 1 \in 1 .. n + 1 /\ ~Wrong(i + 1)
      <3>1. SUFFICES ASSUME i <= n PROVE i + 1 \in 1 .. n + 1 /\ ~Wrong(i + 1)
        OBVIOUS
      <3>2. r - 1 \in Nat /\ r - 1 <= n /\ n + 1 - (r - 1) = i + 1 /\ ~(r <= r - 1)
        BY <2>4, <3>1
      <3>3. i + 1 \in 1 .. n + 1
        BY <2>5, <3>1
      <3> HIDE DEF Wrong
      <3>4. QED BY <2>3, <3>2, <3>3
    <2> HIDE DEF i
    <2>7. CASE i > n
      <3>1. i = n + 1
        BY <2>5, <2>7
      <3>2. QED BY <1>8, <1>11, <2>4, <2>5, <2>7, <3>1
    <2>8. CASE ~(i > n) /\ i \in D
      BY <1>7, <1>11, <2>4, <2>5, <2>8
    <2>9. CASE ~(i > n) /\ i \notin D
      <3>1. i <= n
        BY <2>5, <2>9
      <3>2. from[i] = from[i + 1]
        BY <1>11, <2>5, <2>9
      <3>3. IsFirst(D, i, from[i + 1])
        BY <1>6, <2>5, <2>6, <2>9, <3>1
      <3>4. QED BY <2>4, <3>2, <3>3
    <2>10. QED BY <2>7, <2>8, <2>9
  <1>13. 1 \in 1 .. n + 1
    OBVIOUS
  <1>14. QED BY <1>1, <1>12, <1>13 DEF D

\* An element of a sequence over a set is in the set.
LEMMA ElementOf ==
    ASSUME NEW S, NEW q \in Seq(S), NEW i \in DOMAIN q
    PROVE  q[i] \in S
  OBVIOUS

\* Whatever rules and paths: the tables choose the rule that the documentation says.
LEMMA GlobsMatchAsDocumented ==
    ASSUME NEW L, NEW M,
           NEW rules \in Seq([method : M, pattern : Seq(Seq(L)) \ {<<>>}, enabled : BOOLEAN]),
           NEW method, NEW path \in Seq(Seq(L)) \ {<<>>}
    PROVE  MatchesAsDocumented(rules, method, path)
  <1> DEFINE matcher == CompileRules(rules)
             n == Len(matcher)
             documented == DocumentedMatch(rules, method, path)
             handles == Match(matcher, method, path)
             D == {i \in 1 .. n : Takes(matcher, method, path, i)}
  <1>1. CASE \A i \in DOMAIN rules : Compiles(rules[i].pattern)
    <2>1. Len(rules) \in Nat /\ DOMAIN rules = 1 .. Len(rules)
      OBVIOUS
    <2>2. matcher = [i \in 1 .. Len(rules) |->
                        [method |-> rules[i].method, enabled |-> rules[i].enabled,
                         path |-> compilePath(rules[i].pattern)]]
      BY <1>1, <2>1 DEF CompileRules
    <2>3. n = Len(rules) /\ DOMAIN matcher = 1 .. n /\ n \in Nat
      <3> HIDE DEF matcher
      <3>1. Len(matcher) = Len(rules) /\ DOMAIN matcher = 1 .. Len(rules)
        BY <2>1, <2>2
      <3>2. QED BY <2>1, <3>1
    <2>4. ASSUME NEW i \in 1 .. n
          PROVE  Takes(matcher, method, path, i)
                     <=> /\ rules[i].enabled /\ rules[i].method \in {"", method}
                         /\ DocumentedPath(rules[i].pattern, path)
      <3>1. matcher[i].method = rules[i].method /\ matcher[i].enabled = rules[i].enabled
            /\ matcher[i].path = compilePath(rules[i].pattern)
        <4> HIDE DEF matcher, n
        <4>1. QED BY <2>2, <2>3
      <3>2. i \in DOMAIN rules
        <4> HIDE DEF n
        <4>1. QED BY <2>1, <2>3
      <3>3. rules[i].pattern \in Seq(Seq(L)) \ {<<>>} /\ Compiles(rules[i].pattern)
        <4>1. rules[i] \in [method : M, pattern : Seq(Seq(L)) \ {<<>>}, enabled : BOOLEAN]
          BY <3>2, ElementOf
        <4>2. QED BY <1>1, <3>2, <4>1
      <3>4. matches(compilePath(rules[i].pattern), path) <=> DocumentedPath(rules[i].pattern, path)
        <4>1. rules[i].pattern \in Seq(Seq(L)) /\ rules[i].pattern # <<>> /\ path \in Seq(Seq(L))
          BY <3>3
        <4>2. QED BY <3>3, <4>1, PathsAsDocumented
      <3> HIDE DEF matcher, n
      <3>5. QED BY <3>1, <3>4 DEF Takes
    <2>5. D = documented
      <3> HIDE DEF matcher, n
      <3>1. QED BY <2>1, <2>3, <2>4 DEF DocumentedMatch
    <2>6. IsFirst(D, 1, handles)
      <3>1. n = Len(matcher)
        OBVIOUS
      <3> HIDE DEF matcher, n
      <3>2. QED BY <2>3, <3>1, MatchIsFirst
    <2>7. documented \subseteq 1 .. n
      <3> HIDE DEF matcher, n
      <3>1. QED BY <2>1, <2>3 DEF DocumentedMatch
    <2>8. \A i \in documented : i \in Nat /\ i >= 1 /\ ~(i < 1)
      <3>1. \A i \in 1 .. n : i \in Nat /\ i >= 1 /\ ~(i < 1)
        <4> HIDE DEF n
        <4>1. QED BY <2>3
      <3> HIDE DEF n, documented
      <3>2. QED BY <2>7, <3>1
    <2>9. IF documented = {} THEN handles = 0
          ELSE handles \in documented /\ \A i \in documented : handles <= i
      <3> HIDE DEF D, documented, handles
      <3>1. QED BY <2>5, <2>6, <2>8 DEF IsFirst
    <2>10. matcher = <<>> => documented = {}
      <3>1. ASSUME matcher = <<>> PROVE 1 .. n = {}
        BY <3>1
      <3> HIDE DEF n, documented, matcher
      <3>2. QED BY <2>7, <3>1
    <2> HIDE DEF matcher, documented, handles
    <2>11. QED BY <2>9, <2>10 DEF MatchesAsDocumented, matcher, documented, handles
  <1>2. CASE ~\A i \in DOMAIN rules : Compiles(rules[i].pattern)
    <2>1. matcher = <<>>
      BY <1>2 DEF CompileRules
    <2>2. n = 0
      BY <2>1
    <2>3. IsFirst(D, 1, handles)
      <3>1. n = Len(matcher) /\ n \in Nat
        BY <2>2
      <3> HIDE DEF matcher, n
      <3>2. QED BY <3>1, MatchIsFirst
    <2>4. D = {}
      <3> HIDE DEF n, matcher
      <3>1. QED BY <2>2
    <2>5. handles = 0
      <3> HIDE DEF D, handles
      <3>1. QED BY <2>3, <2>4 DEF IsFirst
    <2> HIDE DEF matcher, handles
    <2>6. QED BY <2>1, <2>5 DEF MatchesAsDocumented, matcher, handles
  <1>3. QED BY <1>1, <1>2

-------------------------------------------------------------------------------
(* Faults.                                                                 *)

\* What validateProbability accepts is a percentage.
LEMMA GoodProbability ==
    ASSUME NEW p \in Int, ~BadProbability(p)
    PROVE  Within(p, 0, 100)
  BY DEF BadProbability, Below, Above, Within

\* Headers that pass Validate are set and removed in no order that matters.
LEMMA ValidHeadersPlay ==
    ASSUME NEW cors, NEW h \in SettingsFromFile("headers"), ~validateHeaders(cors, h)
    PROVE  Playable(cors, "headers", h)
  <1>1. /\ h.probability \in Int
        /\ h.set \in Seq(Headers) /\ h.remove \in Seq(Headers)
    BY DEF SettingsFromFile
  <1> DEFINE valid == {i \in DOMAIN h.set : ~validateHeaderName(cors, h.set[i])}
             seenSet == {h.set[i].name : i \in valid}
  <1>2. /\ ~BadProbability(h.probability)
        /\ valid = DOMAIN h.set
        /\ \A i, j \in valid : i # j => h.set[i].name # h.set[j].name
        /\ \A i \in DOMAIN h.remove :
               ~validateHeaderName(cors, h.remove[i]) /\ h.remove[i].name \notin seenSet
    BY DEF validateHeaders
  <1>3. Within(h.probability, 0, 100)
    BY <1>1, <1>2, GoodProbability
  <1>4. {h.set[i].name : i \in DOMAIN h.set} \cap {h.remove[j].name : j \in DOMAIN h.remove} = {}
    BY <1>2
  <1>5. ASSUME NEW header \in Headers, ~validateHeaderName(cors, header)
        PROVE  header.kind = "plain" \/ (header.kind = "cors" /\ cors = "passthrough")
    BY <1>5 DEF validateHeaderName, Headers
  <1>6. \A header \in Range(h.set) \cup Range(h.remove) :
            header \in Headers /\ ~validateHeaderName(cors, header)
    <2>1. \A i \in DOMAIN h.set : h.set[i] \in Headers /\ ~validateHeaderName(cors, h.set[i])
      BY <1>1, <1>2, ElementOf
    <2>2. \A i \in DOMAIN h.remove : h.remove[i] \in Headers /\ ~validateHeaderName(cors, h.remove[i])
      BY <1>1, <1>2, ElementOf
    <2>3. QED BY <2>1, <2>2 DEF Range
  <1>7. \A header \in Range(h.set) \cup Range(h.remove) :
            header.kind = "plain" \/ (header.kind = "cors" /\ cors = "passthrough")
    BY <1>5, <1>6
  <1> HIDE DEF valid, seenSet
  <1>8. QED BY <1>2, <1>3, <1>4, <1>7 DEF Playable

\* Mutations that pass Validate have a factor where it counts.
LEMMA ValidMutationsPlay ==
    ASSUME NEW cors, NEW m \in SettingsFromFile("mutate"),
           ~validateMutate(m)
    PROVE  Playable(cors, "mutate", m)
  <1>1. m.probability \in Int /\ m.maxBytes \in Int
    BY DEF SettingsFromFile
  <1>2. ~BadProbability(m.probability) /\ ~(m.maxBytes <= 0)
    BY Zenon DEF validateMutate
  <1>3. \A i \in DOMAIN m.operations :
            m.operations[i].op \in {"inflate", "stretch"} => m.operations[i].factor \in Factors
    BY Zenon DEF validateMutate
  <1>4. Within(m.probability, 0, 100)
    BY <1>1, <1>2, GoodProbability
  <1>5. m.maxBytes > 0
    BY <1>1, <1>2
  <1>6. QED BY <1>3, <1>4, <1>5 DEF Playable

\* What a redirect's code needs,
LEMMA RedirectPlays ==
    ASSUME NEW cors, NEW fault, fault = "redirect", NEW settings, settings.location # "",
           Within(settings.code, 300, 399), Within(settings.probability, 0, 100)
    PROVE  Playable(cors, fault, settings)
  <1>1. /\ fault # "latency" /\ fault # "status" /\ fault # "truncate" /\ fault # "stall"
        /\ fault # "bandwidth" /\ fault # "mutate" /\ fault # "headers"
    OBVIOUS
  <1>2. QED BY <1>1, ZenonT(30) DEF Playable

\* and what that of hang and reset needs.
LEMMA OnlyProbabilityMatters ==
    ASSUME NEW cors, NEW fault \in {"hang", "reset"}, NEW settings,
           Within(settings.probability, 0, 100)
    PROVE  Playable(cors, fault, settings)
  <1>1. /\ fault # "latency" /\ fault # "status" /\ fault # "redirect" /\ fault # "truncate"
        /\ fault # "stall" /\ fault # "bandwidth" /\ fault # "mutate" /\ fault # "headers"
    OBVIOUS
  <1>2. QED BY <1>1, Zenon DEF Playable

\* Settings that pass their part of Validate are those their fault can play.
LEMMA ValidSettingsPlay ==
    ASSUME NEW cors, NEW fault \in Faults, NEW settings \in SettingsFromFile(fault),
           ~validateFault(cors, fault, settings)
    PROVE  Playable(cors, fault, settings)
  <1>1. CASE fault = "latency"
    <2>1. ~validateLatency(settings)
      BY <1>1 DEF validateFault
    <2>2. settings \in [dist : Words \ {"lognormal"}, value : Int, jitter : Int]
                           \cup [dist : {"lognormal"}, p50 : Int, p99 : Int]
      BY <1>1 DEF SettingsFromFile
    <2>3. CASE settings \in [dist : Words \ {"lognormal"}, value : Int, jitter : Int]
      <3>1. settings.dist # "lognormal" /\ "probability" \notin DOMAIN settings
        BY <2>3
      <3>2. QED BY <1>1, <3>1 DEF Playable
    <2>4. CASE settings \in [dist : {"lognormal"}, p50 : Int, p99 : Int]
      <3>1. /\ settings.dist = "lognormal" /\ settings.p50 \in Int /\ settings.p99 \in Int
            /\ "probability" \notin DOMAIN settings
        BY <2>4
      <3>2. 0 < settings.p50 /\ 0 < settings.p99
        BY <2>1, <3>1 DEF validateLatency
      <3>3. QED BY <1>1, <3>1, <3>2 DEF Playable
    <2>5. QED BY <2>2, <2>3, <2>4
  <1>2. CASE fault = "status"
    <2>1. settings.code \in Int /\ settings.probability \in Int
      BY <1>2 DEF SettingsFromFile
    <2>2. 100 <= settings.code /\ settings.code <= 599 /\ ~BadProbability(settings.probability)
      BY <1>2, <2>1 DEF validateFault, validateStatus
    <2>3. Within(settings.code, 100, 999) /\ Within(settings.probability, 0, 100)
      BY <2>1, <2>2, GoodProbability, NaNAssumption DEF Within
    <2>4. QED BY <1>2, <2>3 DEF Playable
  <1>3. CASE fault = "redirect"
    <2>1. settings.code \in Int /\ settings.probability \in Int
      BY <1>3 DEF SettingsFromFile
    <2>2. /\ settings.code \in RedirectCodes /\ settings.location # ""
          /\ ~BadProbability(settings.probability)
      BY <1>3 DEF validateFault, validateRedirect
    <2>3. Within(settings.code, 300, 399)
      <3>1. settings.code \in 300 .. 399
        <4>1. \A code \in RedirectCodes : code \in 300 .. 399
          BY DEF RedirectCodes
        <4>2. QED BY <2>2, <4>1
      <3>2. settings.code # NaN
        BY <3>1, NaNAssumption
      <3>3. QED BY <3>1, <3>2 DEF Within
    <2>4. Within(settings.probability, 0, 100)
      BY <2>1, <2>2, GoodProbability
    <2>5. settings.location # ""
      BY <2>2
    <2>6. QED BY <1>3, <2>3, <2>4, <2>5, RedirectPlays
  <1>4. CASE fault \in {"hang", "reset"}
    <2>1. settings.probability \in Int
      BY <1>4 DEF SettingsFromFile
    <2>2. ~BadProbability(settings.probability)
      BY <1>4 DEF validateFault
    <2>3. Within(settings.probability, 0, 100)
      BY <2>1, <2>2, GoodProbability
    <2>4. QED BY <1>4, <2>3, OnlyProbabilityMatters
  <1>5. CASE fault = "truncate"
    <2>1. settings.at \in Int /\ settings.probability \in Int
      BY <1>5 DEF SettingsFromFile
    <2>2. ~BadProbability(settings.probability) /\ ~BadProbability(settings.at)
      BY <1>5 DEF validateFault, validateTruncate
    <2>3. Within(settings.probability, 0, 100) /\ Within(settings.at, 0, 100)
      BY <2>1, <2>2, GoodProbability
    <2>4. QED BY <1>5, <2>3 DEF Playable
  <1>6. CASE fault = "stall"
    <2>1. settings.afterBytes \in Int /\ settings.probability \in Int
      BY <1>6 DEF SettingsFromFile
    <2>2. ~BadProbability(settings.probability) /\ ~(settings.afterBytes < 0)
      BY <1>6 DEF validateFault, validateStall
    <2>3. Within(settings.probability, 0, 100) /\ 0 <= settings.afterBytes
      BY <2>1, <2>2, GoodProbability
    <2>4. QED BY <1>6, <2>3 DEF Playable
  <1>7. CASE fault = "bandwidth"
    <2>1. settings.bytesPerSecond \in Int /\ "probability" \notin DOMAIN settings
      BY <1>7 DEF SettingsFromFile
    <2>2. 0 < settings.bytesPerSecond
      BY <1>7, <2>1 DEF validateFault
    <2>3. QED BY <1>7, <2>1, <2>2 DEF Playable
  <1>8. CASE fault = "headers"
    BY <1>8, ValidHeadersPlay DEF validateFault
  <1>9. CASE fault = "mutate"
    BY <1>9, ValidMutationsPlay DEF validateFault
  <1>10. QED BY <1>1, <1>2, <1>3, <1>4, <1>5, <1>6, <1>7, <1>8, <1>9 DEF Faults

\* The defaults leave the settings of a mutation what a file can give it.
LEMMA DefaultsAreSettings ==
    ASSUME NEW m \in SettingsFromFile("mutate")
    PROVE  applyMutateDefaults(m) \in SettingsFromFile("mutate")
  <1> DEFINE Operations == [op : Words, path : Seq(Words), factor : Int]
             Repaired(o) == IF o.factor = 0 /\ o.op \in {"inflate", "stretch"}
                            THEN [o EXCEPT !.factor = defaultMutateFactor] ELSE o
             operations == [i \in DOMAIN m.operations |-> Repaired(m.operations[i])]
             maxBytes == IF m.maxBytes = 0 THEN defaultMutateMaxBytes ELSE m.maxBytes
  <1>1. m \in [probability : Int, maxBytes : Int, operations : Seq(Operations)]
    BY DEF SettingsFromFile
  <1>2. m.probability \in Int /\ m.maxBytes \in Int /\ m.operations \in Seq(Operations)
    <2> HIDE DEF Operations
    <2>1. QED BY <1>1
  <1>3. applyMutateDefaults(m) = [m EXCEPT !.maxBytes = maxBytes, !.operations = operations]
    BY DEF applyMutateDefaults
  <1>4. \A o \in Operations : Repaired(o) \in Operations
    BY DEF defaultMutateFactor
  <1>5. operations \in Seq(Operations)
    <2>1. \A i \in DOMAIN m.operations : m.operations[i] \in Operations
      <3> HIDE DEF Operations
      <3>1. QED BY <1>2
    <2>2. Len(m.operations) \in Nat /\ DOMAIN m.operations = 1 .. Len(m.operations)
      <3> HIDE DEF Operations
      <3>1. QED BY <1>2
    <2> HIDE DEF Operations, Repaired
    <2>3. \A i \in 1 .. Len(m.operations) : Repaired(m.operations[i]) \in Operations
      BY <1>4, <2>1, <2>2
    <2>4. QED BY <2>2, <2>3
  <1>6. maxBytes \in Int
    BY <1>2, SMT DEF defaultMutateMaxBytes
  <1>7. applyMutateDefaults(m) \in [probability : Int, maxBytes : Int, operations : Seq(Operations)]
    <2> HIDE DEF Operations, operations, maxBytes
    <2>1. QED BY <1>1, <1>3, <1>5, <1>6
  <1>8. QED BY <1>7 DEF SettingsFromFile

\* A rule that passes Validate, with its defaults, can be played.
LEMMA ValidRulesPlay ==
    ASSUME NEW cors, NEW faults, DOMAIN faults \subseteq Faults,
           \A fault \in DOMAIN faults : faults[fault] \in SettingsFromFile(fault)
    PROVE  ValidRulesArePlayable(cors, faults)
  <1> DEFINE rule == [name |-> "r", match |-> "GET /", faults |-> WithDefaults(faults)]
  <1>1. SUFFICES ASSUME ~validateRules(cors, <<rule>>), NEW fault \in DOMAIN faults
                 PROVE  Playable(cors, fault, rule.faults[fault])
    BY DEF ValidRulesArePlayable
  <1>2. /\ rule.faults = WithDefaults(faults) /\ DOMAIN rule.faults = DOMAIN faults
        /\ fault \in Faults
        /\ rule.faults[fault] = IF fault = "mutate" THEN applyMutateDefaults(faults[fault]) ELSE faults[fault]
    BY DEF WithDefaults
  <1>3. rule.faults[fault] \in SettingsFromFile(fault)
    <2> HIDE DEF rule
    <2>1. faults[fault] \in SettingsFromFile(fault)
      OBVIOUS
    <2>2. CASE fault = "mutate"
      BY <1>2, <2>1, <2>2, DefaultsAreSettings
    <2>3. CASE fault # "mutate"
      BY <1>2, <2>1, <2>3
    <2>4. QED BY <2>2, <2>3
  <1>4. ~validateFault(cors, fault, rule.faults[fault])
    <2>1. 1 \in DOMAIN <<rule>> /\ <<rule>>[1] = rule
      OBVIOUS
    <2> HIDE DEF rule
    <2>2. QED BY <1>1, <1>2, <2>1 DEF validateRules
  <1> HIDE DEF rule
  <1>5. QED BY <1>2, <1>3, <1>4, ValidSettingsPlay

\* In a file that passes Validate no two names are the same, and every step parses.
LEMMA ValidNamesAreUnique ==
    ASSUME NEW S, NEW rules, NEW scenarios \in Seq(S)
    PROVE  ValidNamesIdentify(rules, scenarios)
  <1>1. SUFFICES ASSUME ~validateRules("reflect", rules), ~validateScenarios(rules, scenarios)
                 PROVE  /\ \A i, j \in DOMAIN rules : i # j => rules[i].name # rules[j].name
                        /\ \A i, j \in DOMAIN scenarios : i # j => scenarios[i].name # scenarios[j].name
                        /\ \A i \in DOMAIN rules, j \in DOMAIN scenarios : rules[i].name # scenarios[j].name
                        /\ \A i \in DOMAIN scenarios :
                               \A step \in DOMAIN scenarios[i].steps : ~ParseFaults(scenarios[i].steps[step]).error
    BY DEF ValidNamesIdentify
  <1>2. \A i, j \in DOMAIN rules : i # j => rules[i].name # rules[j].name
    BY <1>1 DEF validateRules
  <1>3. ASSUME NEW i \in DOMAIN scenarios
        PROVE  /\ \A r \in DOMAIN rules : scenarios[i].name # rules[r].name
               /\ \A s \in 1 .. i - 1 : scenarios[i].name # scenarios[s].name
               /\ \A step \in DOMAIN scenarios[i].steps : ~ParseFaults(scenarios[i].steps[step]).error
    BY <1>1 DEF validateScenarios
  <1>4. ASSUME NEW i \in DOMAIN scenarios, NEW j \in DOMAIN scenarios, i # j
        PROVE  scenarios[i].name # scenarios[j].name
    <2>1. i \in Nat /\ j \in Nat /\ 1 <= i /\ 1 <= j
      OBVIOUS
    <2>2. i \in 1 .. j - 1 \/ j \in 1 .. i - 1
      BY <1>4, <2>1
    <2>3. QED BY <1>3, <2>2
  <1>5. QED BY <1>2, <1>3, <1>4

\* A fixed latency needs no percentiles.
LEMMA FixedWaitPlays ==
    ASSUME NEW cors, NEW settings, settings.dist = "fixed", "probability" \notin DOMAIN settings
    PROVE  Playable(cors, "latency", settings)
  <1>1. settings.dist = "lognormal" => 0 < settings.p50 /\ 0 < settings.p99
    OBVIOUS
  <1>2. QED BY <1>1 DEF Playable

\* The settings ParseFaults makes of a value it accepts can be played.
LEMMA GoodValuesPlay ==
    ASSUME NEW cors, NEW name \in WithoutValue \cup WithValue, name # "off",
           NEW value \in Values, name \in WithValue => ~BadValue(name, value)
    PROVE  Playable(cors, name, Settings(name, value))
  <1>1. value.number \in Int
    BY DEF Values
  <1>2. Within(100, 0, 100)
    BY NaNAssumption DEF Within
  <1>3. CASE name = "latency"
    <2>1. Settings(name, value) = [dist |-> "fixed", value |-> value.number, jitter |-> 0]
      BY <1>3 DEF Settings
    <2>2. Settings(name, value).dist = "fixed" /\ "probability" \notin DOMAIN Settings(name, value)
      BY <2>1
    <2>3. Playable(cors, "latency", Settings(name, value))
      BY <2>2, FixedWaitPlays
    <2>4. QED BY <1>3, <2>3
  <1>4. CASE name \in {"hang", "reset"}
    <2>1. Settings(name, value) = [probability |-> 100]
      BY <1>4 DEF Settings
    <2>2. Settings(name, value).probability = 100
      BY <2>1
    <2>3. Within(Settings(name, value).probability, 0, 100)
      BY <1>2, <2>2
    <2>4. QED BY <1>4, <2>3, OnlyProbabilityMatters
  <1>5. CASE name = "status"
    <2>1. Settings(name, value) = [code |-> value.number, probability |-> 100, retryAfter |-> 0]
      BY <1>5 DEF Settings
    <2>2. Within(value.number, 100, 599)
      BY <1>5 DEF BadValue, WithValue
    <2>3. Within(value.number, 100, 999)
      BY <1>1, <2>2 DEF Within
    <2>4. QED BY <1>2, <1>5, <2>1, <2>3 DEF Playable
  <1>6. CASE name = "truncate"
    <2>1. Settings(name, value) = [at |-> value.number, probability |-> 100]
      BY <1>6 DEF Settings
    <2>2. ~BadProbability(value.number)
      BY <1>6 DEF BadValue, WithValue
    <2>3. Within(value.number, 0, 100)
      BY <1>1, <2>2, GoodProbability
    <2>4. QED BY <1>2, <1>6, <2>1, <2>3 DEF Playable
  <1>7. CASE name = "bandwidth"
    <2>1. Settings(name, value) = [bytesPerSecond |-> value.number]
      BY <1>7 DEF Settings
    <2>2. ~(value.number <= 0)
      BY <1>7 DEF BadValue, WithValue
    <2>3. 0 < value.number
      BY <1>1, <2>2
    <2>4. QED BY <1>7, <2>1, <2>3 DEF Playable
  <1>8. CASE name = "redirect"
    <2>1. Settings(name, value) = [code |-> value.number, location |-> value.location, probability |-> 100]
      BY <1>8 DEF Settings
    <2>2. value.location # "" /\ value.number \in RedirectCodes
      <3>1. ~BadValue("redirect", value)
        BY <1>8 DEF WithValue
      <3>2. QED BY <3>1, Zenon DEF BadValue
    <2>3. \A code \in RedirectCodes : Within(code, 300, 399)
      <3>1. \A code \in RedirectCodes : code \in 300 .. 399
        BY DEF RedirectCodes
      <3>2. \A code \in 300 .. 399 : Within(code, 300, 399)
        BY NaNAssumption DEF Within
      <3>3. QED BY <3>1, <3>2
    <2>4. /\ Settings(name, value).code = value.number
          /\ Settings(name, value).location = value.location
          /\ Settings(name, value).probability = 100
      BY <2>1
    <2>5. Within(Settings(name, value).code, 300, 399)
      BY <2>2, <2>3, <2>4
    <2>6. Within(Settings(name, value).probability, 0, 100)
      BY <1>2, <2>4
    <2>7. Settings(name, value).location # ""
      BY <2>2, <2>4
    <2>8. QED BY <1>8, <2>5, <2>6, <2>7, RedirectPlays
  <1>9. QED BY <1>3, <1>4, <1>5, <1>6, <1>7, <1>8 DEF WithoutValue, WithValue

\* There are finitely many faults that end the request.
LEMMA EndingsAreFinite == \A S : IsFiniteSet(S \cap EndsTheRequest)
  <1>1. EndsTheRequest = (((({} \cup {"status"}) \cup {"hang"}) \cup {"reset"}) \cup {"redirect"})
    BY DEF EndsTheRequest
  <1>2. IsFiniteSet(EndsTheRequest)
    BY <1>1, FS_EmptySet, FS_AddElement
  <1>3. QED BY <1>2, FS_Subset

(* ParseFaults by its parts: the names of a list, the directive of a name, the *)
(* settings it asks for, and what is rejected.                                 *)
Names(directives) == {directives[i].name : i \in DOMAIN directives}
Named(directives, name) == CHOOSE d \in Range(directives) : d.name = name
Asked(directives) == [name \in Names(directives) |-> Settings(name, Named(directives, name).value)]

Wrong(d) ==
    \/ d.name \notin WithoutValue \cup WithValue
    \/ d.name \in WithoutValue /\ d.value.given # "absent"
    \/ d.name \in WithValue /\ (d.value.given # "text" \/ BadValue(d.name, d.value))

Rejected(directives) ==
    \/ Cardinality(Names(directives)) # Len(directives)
    \/ \E i \in DOMAIN directives : Wrong(directives[i])
    \/ "off" \in Names(directives) /\ Names(directives) # {"off"}
    \/ Cardinality(Names(directives) \cap EndsTheRequest) > 1

OffLabel == <<Directive("off", NoValue)>>

\* ParseFaults in the terms of these proofs.
LEMMA ParseFaultsIs ==
    ASSUME NEW directives
    PROVE  ParseFaults(directives) =
               IF Rejected(directives) THEN Parsed(TRUE, NoRule, <<>>)
               ELSE IF Names(directives) = {"off"} THEN Parsed(FALSE, NoRule, OffLabel)
               ELSE Parsed(FALSE, Asked(directives), describeFaults(Asked(directives)))
  BY DEF ParseFaults, Rejected, Wrong, Asked, Named, Names, OffLabel

\* A list that is not rejected is "off" alone or asks for the settings of its values.
LEMMA Accepted ==
    ASSUME NEW directives, NEW parsed, parsed = ParseFaults(directives)
    PROVE  /\ parsed.error <=> Rejected(directives)
           /\ ~parsed.error /\ Names(directives) = {"off"} =>
                  parsed.rule = NoRule /\ parsed.label = OffLabel
           /\ ~parsed.error /\ Names(directives) # {"off"} =>
                  /\ "off" \notin Names(directives)
                  /\ parsed.rule = Asked(directives)
                  /\ parsed.label = describeFaults(Asked(directives))
  <1>1. CASE Rejected(directives)
    <2>1. parsed = Parsed(TRUE, NoRule, <<>>)
      BY <1>1, ParseFaultsIs
    <2>2. parsed.error
      BY <2>1 DEF Parsed
    <2>3. QED BY <1>1, <2>2
  <1>2. CASE ~Rejected(directives) /\ Names(directives) = {"off"}
    <2>1. parsed = Parsed(FALSE, NoRule, OffLabel)
      BY <1>2, ParseFaultsIs
    <2>2. ~parsed.error /\ parsed.rule = NoRule /\ parsed.label = OffLabel
      BY <2>1 DEF Parsed
    <2>3. QED BY <1>2, <2>2
  <1>3. CASE ~Rejected(directives) /\ Names(directives) # {"off"}
    <2>1. parsed = Parsed(FALSE, Asked(directives), describeFaults(Asked(directives)))
      BY <1>3, ParseFaultsIs
    <2>2. /\ ~parsed.error /\ parsed.rule = Asked(directives)
          /\ parsed.label = describeFaults(Asked(directives))
      BY <2>1 DEF Parsed
    <2>3. "off" \notin Names(directives)
      BY <1>3 DEF Rejected
    <2>4. QED BY <1>3, <2>2, <2>3
  <1>4. QED BY <1>1, <1>2, <1>3

\* Each name of an accepted list is that of a directive with a good value.
LEMMA NamedIsGood ==
    ASSUME NEW directives \in Seq(Directives), ~Rejected(directives), NEW name \in Names(directives)
    PROVE  /\ Named(directives, name).value \in Values
           /\ name \in WithoutValue \cup WithValue
           /\ name \in WithValue => ~BadValue(name, Named(directives, name).value)
  <1> DEFINE d == Named(directives, name)
  <1>1. PICK i \in DOMAIN directives : directives[i].name = name
    BY DEF Names
  <1>2. \E e \in Range(directives) : e.name = name
    BY <1>1 DEF Range
  <1>3. d \in Range(directives) /\ d.name = name
    BY <1>2 DEF Named
  <1> HIDE DEF d
  <1>4. PICK j \in DOMAIN directives : d = directives[j]
    BY <1>3 DEF Range
  <1>5. d \in Directives
    BY <1>4, ElementOf
  <1>6. ~Wrong(d)
    BY <1>4 DEF Rejected
  <1>7. /\ d.value \in Values
        /\ name \in WithoutValue \cup WithValue
        /\ name \in WithValue => ~BadValue(name, d.value)
    BY <1>3, <1>5, <1>6 DEF Directives, Wrong
  <1>8. QED BY <1>7 DEF d

\* Directives that parse, of which no validation sees more, can be played, and at most
\* one of them ends the request.
LEMMA ParsedDirectivesPlay ==
    ASSUME NEW cors, NEW directives \in Seq(Directives)
    PROVE  DirectivesArePlayable(cors, directives)
  <1> DEFINE parsed == ParseFaults(directives)
  <1>1. SUFFICES ASSUME ~parsed.error
                 PROVE  /\ Cardinality(DOMAIN parsed.rule \cap EndsTheRequest) <= 1
                        /\ \A fault \in DOMAIN parsed.rule : Playable(cors, fault, parsed.rule[fault])
    BY DEF DirectivesArePlayable
  <1>2. /\ ~Rejected(directives)
        /\ Names(directives) = {"off"} => parsed.rule = NoRule
        /\ Names(directives) # {"off"} =>
               "off" \notin Names(directives) /\ parsed.rule = Asked(directives)
    BY <1>1, Accepted
  <1> HIDE DEF parsed
  <1>3. CASE Names(directives) = {"off"}
    <2>1. DOMAIN parsed.rule = {}
      BY <1>2, <1>3 DEF NoRule
    <2>2. Cardinality({}) = 0
      BY FS_EmptySet
    <2>3. DOMAIN parsed.rule \cap EndsTheRequest = {}
      BY <2>1
    <2>4. QED BY <2>1, <2>2, <2>3
  <1>4. CASE Names(directives) # {"off"}
    <2>1. parsed.rule = Asked(directives) /\ "off" \notin Names(directives)
      BY <1>2, <1>4
    <2>2. DOMAIN parsed.rule = Names(directives)
      BY <2>1 DEF Asked
    <2>3. Cardinality(Names(directives) \cap EndsTheRequest) <= 1
      <3>1. Cardinality(Names(directives) \cap EndsTheRequest) \in Nat
        BY EndingsAreFinite, FS_CardinalityType
      <3>2. ~(Cardinality(Names(directives) \cap EndsTheRequest) > 1)
        BY <1>2 DEF Rejected
      <3>3. QED BY <3>1, <3>2
    <2>4. ASSUME NEW name \in Names(directives) PROVE Playable(cors, name, parsed.rule[name])
      <3> DEFINE value == Named(directives, name).value
      <3>1. /\ value \in Values
            /\ name \in WithoutValue \cup WithValue /\ name # "off"
            /\ name \in WithValue => ~BadValue(name, value)
        BY <1>2, <2>1, NamedIsGood
      <3>2. parsed.rule[name] = Settings(name, value)
        BY <2>1 DEF Asked
      <3> HIDE DEF value
      <3>3. Playable(cors, name, Settings(name, value))
        BY <3>1, GoodValuesPlay
      <3>4. QED BY <3>2, <3>3
    <2>5. QED BY <2>2, <2>3, <2>4
  <1>5. QED BY <1>3, <1>4

(* A chain lists faults if it has each of them, once. *)
Lists(chain, faults) ==
    /\ chain \in Seq(faults)
    /\ \A i, j \in DOMAIN chain : i # j => chain[i] # chain[j]
    /\ \A fault \in faults : \E i \in DOMAIN chain : chain[i] = fault

PartOf(rule, fault) == Directive(fault, ValueOf(fault, rule[fault]))
PartsOf(rule, chain) == [i \in DOMAIN chain |-> PartOf(rule, chain[i])]

\* A fault that is looked for next is listed after the others, if the rule has it.
LEMMA ListsOneMore ==
    ASSUME NEW rule, NEW F, NEW chain, Lists(chain, F \cap DOMAIN rule), NEW fault, fault \notin F
    PROVE  Lists(chain \o Link(rule, fault), (F \cup {fault}) \cap DOMAIN rule)
  <1>1. CASE fault \in DOMAIN rule
    <2> DEFINE more == chain \o <<fault>>
               n == Len(chain)
    <2>1. Link(rule, fault) = <<fault>>
      BY <1>1 DEF Link
    <2>2. chain \in Seq(F \cap DOMAIN rule) /\ n \in Nat /\ DOMAIN chain = 1 .. n
      BY DEF Lists
    <2>3. chain \in Seq((F \cup {fault}) \cap DOMAIN rule)
      BY <2>2
    <2>4. more \in Seq((F \cup {fault}) \cap DOMAIN rule)
      BY <1>1, <2>3
    <2>5. DOMAIN more = 1 .. n + 1 /\ more[n + 1] = fault /\ \A i \in 1 .. n : more[i] = chain[i]
      BY <2>2
    <2>6. \A i \in 1 .. n : chain[i] \in F \cap DOMAIN rule
      BY <2>2, ElementOf
    <2> HIDE DEF more, n
    <2>7. ASSUME NEW i \in DOMAIN more, NEW j \in DOMAIN more, i # j
          PROVE  more[i] # more[j]
      <3>1. CASE i \in 1 .. n /\ j \in 1 .. n
        BY <2>2, <2>5, <2>7, <3>1 DEF Lists
      <3>2. CASE i \in 1 .. n /\ j = n + 1
        BY <2>5, <2>6, <3>2
      <3>3. CASE i = n + 1 /\ j \in 1 .. n
        BY <2>5, <2>6, <3>3
      <3>4. QED BY <2>2, <2>5, <2>7, <3>1, <3>2, <3>3
    <2>8. ASSUME NEW f \in (F \cup {fault}) \cap DOMAIN rule
          PROVE  \E i \in DOMAIN more : more[i] = f
      <3>1. CASE f = fault
        BY <2>2, <2>5, <3>1
      <3>2. CASE f \in F \cap DOMAIN rule
        <4>1. PICK i \in 1 .. n : chain[i] = f
          BY <2>2, <3>2 DEF Lists
        <4>2. QED BY <2>2, <2>5, <4>1
      <3>3. QED BY <2>8, <3>1, <3>2
    <2>9. chain \o Link(rule, fault) = more
      BY <2>1 DEF more
    <2>10. QED BY <2>4, <2>7, <2>8, <2>9 DEF Lists
  <1>2. CASE fault \notin DOMAIN rule
    <2>1. Link(rule, fault) = <<>>
      BY <1>2 DEF Link
    <2>2. chain \o <<>> = chain
      BY DEF Lists
    <2>3. (F \cup {fault}) \cap DOMAIN rule = F \cap DOMAIN rule
      BY <1>2
    <2>4. QED BY <2>1, <2>2, <2>3
  <1>3. QED BY <1>1, <1>2

\* And its part of the label comes after theirs.
LEMMA PartsOneMore ==
    ASSUME NEW rule, NEW S, NEW chain \in Seq(S), NEW fault
    PROVE  /\ PartsOf(rule, chain) \o Part(rule, fault) = PartsOf(rule, chain \o Link(rule, fault))
           /\ chain \o Link(rule, fault) \in Seq(S \cup {fault})
  <1>1. CASE fault \in DOMAIN rule
    <2> DEFINE part == PartOf(rule, fault)
               parts == PartsOf(rule, chain)
               more == chain \o <<fault>>
               n == Len(chain)
               V == {PartOf(rule, chain[i]) : i \in DOMAIN chain}
    <2>1. Link(rule, fault) = <<fault>> /\ Part(rule, fault) = <<part>>
      BY <1>1 DEF Link, Part, PartOf
    <2>2. n \in Nat /\ DOMAIN chain = 1 .. n /\ parts = [i \in 1 .. n |-> PartOf(rule, chain[i])]
      BY DEF PartsOf
    <2>3. parts \in Seq(V) /\ Len(parts) = n
      <3> HIDE DEF parts, n
      <3>1. \A i \in 1 .. n : PartOf(rule, chain[i]) \in V
        BY <2>2
      <3> HIDE DEF V
      <3>2. QED BY <2>2, <3>1
    <2>4. DOMAIN more = 1 .. n + 1 /\ more[n + 1] = fault /\ \A i \in 1 .. n : more[i] = chain[i]
      BY <2>2
    <2>5. more \in Seq(S \cup {fault})
      OBVIOUS
    <2>6. parts \o <<part>> = [i \in 1 .. n + 1 |-> IF i <= n THEN parts[i] ELSE part]
      <3> HIDE DEF parts, part, n, V, more
      <3>1. QED BY <2>2, <2>3
    <2> HIDE DEF more, n, parts, V
    <2>7. \A i \in 1 .. n + 1 : (IF i <= n THEN parts[i] ELSE part) = PartOf(rule, more[i])
      BY <2>2, <2>4
    <2>8. parts \o <<part>> = [i \in 1 .. n + 1 |-> PartOf(rule, more[i])]
      <3> HIDE DEF part
      <3>1. QED BY <2>6, <2>7
    <2>9. parts \o <<part>> = PartsOf(rule, more)
      BY <2>4, <2>8 DEF PartsOf
    <2>10. QED BY <2>1, <2>5, <2>9 DEF more, parts
  <1>2. CASE fault \notin DOMAIN rule
    <2>1. Link(rule, fault) = <<>> /\ Part(rule, fault) = <<>>
      BY <1>2 DEF Link, Part
    <2>2. chain \o <<>> = chain /\ chain \in Seq(S \cup {fault})
      OBVIOUS
    <2>3. PartsOf(rule, chain) \o <<>> = PartsOf(rule, chain)
      <3> DEFINE parts == PartsOf(rule, chain)
                 V == {PartOf(rule, chain[i]) : i \in DOMAIN chain}
      <3>1. parts \in Seq(V)
        BY DEF PartsOf
      <3> HIDE DEF parts, V
      <3>2. parts \o <<>> = parts
        BY <3>1
      <3>3. QED BY <3>2 DEF parts
    <2>4. QED BY <2>1, <2>2, <2>3
  <1>3. QED BY <1>1, <1>2

Labels(rule, faults, chain, label) ==
    Lists(chain, faults \cap DOMAIN rule) /\ label = PartsOf(rule, chain)

\* The label of no faults is empty,
LEMMA LabelsNone ==
    ASSUME NEW rule
    PROVE  Labels(rule, {}, <<>>, <<>>)
  BY DEF Labels, Lists, PartsOf

\* and a fault that is added to it comes last.
LEMMA LabelsOneMore ==
    ASSUME NEW rule, NEW F, NEW chain, NEW label, Labels(rule, F, chain, label), NEW fault, fault \notin F,
           NEW G, G = F \cup {fault}
    PROVE  Labels(rule, G, chain \o Link(rule, fault), label \o Part(rule, fault))
  <1>1. Lists(chain, F \cap DOMAIN rule) /\ label = PartsOf(rule, chain)
    BY DEF Labels
  <1>2. chain \in Seq(F \cap DOMAIN rule)
    BY <1>1 DEF Lists
  <1>3. Lists(chain \o Link(rule, fault), G \cap DOMAIN rule)
    BY <1>1, ListsOneMore
  <1>4. label \o Part(rule, fault) = PartsOf(rule, chain \o Link(rule, fault))
    BY <1>1, <1>2, PartsOneMore
  <1>5. QED BY <1>3, <1>4 DEF Labels

\* The first part of a label has nothing before it.
LEMMA EmptyBefore ==
    ASSUME NEW rule, NEW fault
    PROVE  <<>> \o Link(rule, fault) = Link(rule, fault) /\ <<>> \o Part(rule, fault) = Part(rule, fault)
  <1>1. <<>> \o Link(rule, fault) = Link(rule, fault)
    BY DEF Link
  <1>2. <<>> \o Part(rule, fault) = Part(rule, fault)
    <2> DEFINE part == PartOf(rule, fault)
    <2>1. Part(rule, fault) = IF fault \in DOMAIN rule THEN <<part>> ELSE <<>>
      BY DEF Part, PartOf
    <2> HIDE DEF part
    <2>2. QED BY <2>1
  <1>3. QED BY <1>1, <1>2

Spoken == {"latency", "reset", "status", "redirect", "hang", "truncate", "bandwidth"}

(* The label has the parts of the chain that Build makes, one by one: the     *)
(* faults of directives are seven of its ten, in its order.                   *)
LEMMA LabelFollowsChain ==
    ASSUME NEW rule, DOMAIN rule \subseteq Spoken
    PROVE  /\ Lists(Build(rule), DOMAIN rule)
           /\ describeFaults(rule) = PartsOf(rule, Build(rule))
  <1> DEFINE F1 == {"latency"}
             F2 == {"latency", "reset"}
             F3 == {"latency", "reset", "status"}
             F4 == {"latency", "reset", "status", "redirect"}
             F5 == {"latency", "reset", "status", "redirect", "hang"}
             F6 == {"latency", "reset", "status", "redirect", "hang", "truncate"}
             F7 == {"latency", "reset", "status", "redirect", "hang", "truncate", "bandwidth"}
             c1 == Link(rule, "latency")
             l1 == Part(rule, "latency")
             c2 == c1 \o Link(rule, "reset")
             l2 == l1 \o Part(rule, "reset")
             c3 == c2 \o Link(rule, "status")
             l3 == l2 \o Part(rule, "status")
             c4 == c3 \o Link(rule, "redirect")
             l4 == l3 \o Part(rule, "redirect")
             c5 == c4 \o Link(rule, "hang")
             l5 == l4 \o Part(rule, "hang")
             c6 == c5 \o Link(rule, "truncate")
             l6 == l5 \o Part(rule, "truncate")
             c7 == c6 \o Link(rule, "bandwidth")
             l7 == l6 \o Part(rule, "bandwidth")
  <1>1. "latency" \notin {} /\ F1 = {} \cup {"latency"}
    OBVIOUS
  <1>2. "reset" \notin F1 /\ F2 = F1 \cup {"reset"}
    OBVIOUS
  <1>3. "status" \notin F2 /\ F3 = F2 \cup {"status"}
    OBVIOUS
  <1>4. "redirect" \notin F3 /\ F4 = F3 \cup {"redirect"}
    OBVIOUS
  <1>5. "hang" \notin F4 /\ F5 = F4 \cup {"hang"}
    OBVIOUS
  <1>6. "truncate" \notin F5 /\ F6 = F5 \cup {"truncate"}
    OBVIOUS
  <1>7. "bandwidth" \notin F6 /\ F7 = F6 \cup {"bandwidth"}
    OBVIOUS
  <1>8. F7 \cap DOMAIN rule = DOMAIN rule
    BY DEF Spoken
  <1> HIDE DEF F1, F2, F3, F4, F5, F6, F7
  <1>11. Labels(rule, F1, c1, l1)
    BY <1>1, EmptyBefore, LabelsNone, LabelsOneMore
  <1>12. Labels(rule, F2, c2, l2)
    <2> HIDE DEF c1, l1
    <2>1. QED BY <1>2, <1>11, LabelsOneMore
  <1>13. Labels(rule, F3, c3, l3)
    <2> HIDE DEF c2, l2
    <2>1. QED BY <1>3, <1>12, LabelsOneMore
  <1>14. Labels(rule, F4, c4, l4)
    <2> HIDE DEF c3, l3
    <2>1. QED BY <1>4, <1>13, LabelsOneMore
  <1>15. Labels(rule, F5, c5, l5)
    <2> HIDE DEF c4, l4
    <2>1. QED BY <1>5, <1>14, LabelsOneMore
  <1>16. Labels(rule, F6, c6, l6)
    <2> HIDE DEF c5, l5
    <2>1. QED BY <1>6, <1>15, LabelsOneMore
  <1>17. Labels(rule, F7, c7, l7)
    <2> HIDE DEF c6, l6
    <2>1. QED BY <1>7, <1>16, LabelsOneMore
  <1>18. Build(rule) = c7
    <2>1. Link(rule, "mutate") = <<>> /\ Link(rule, "headers") = <<>> /\ Link(rule, "stall") = <<>>
      BY DEF Link, Spoken
    <2>2. c5 \o <<>> = c5 /\ c6 \o <<>> = c6
      <3> HIDE DEF c5, c6
      <3>1. QED BY <1>15, <1>16 DEF Labels, Lists
    <2>3. Build(rule) = c5 \o <<>> \o <<>> \o Link(rule, "truncate") \o <<>> \o Link(rule, "bandwidth")
      BY <2>1 DEF Build
    <2> HIDE DEF c5
    <2>4. QED BY <2>2, <2>3
  <1>19. describeFaults(rule) = l7
    BY DEF describeFaults
  <1> HIDE DEF c7, l7
  <1>20. QED BY <1>8, <1>17, <1>18, <1>19 DEF Labels

\* The fields of the values that labels have.
LEMMA NumberFields ==
    ASSUME NEW n
    PROVE  Number(n).given = "text" /\ Number(n).parses = TRUE /\ Number(n).number = n
  <1> DEFINE blank == ""
  <1>1. Number(n) = [given |-> "text", parses |-> TRUE, number |-> n, location |-> blank]
    BY Zenon DEF Number
  <1> HIDE DEF blank
  <1>2. QED BY <1>1

\* Of a redirect's value,
LEMMA LocationFields ==
    /\ \A n, l : Location(n, l).given = "text"
    /\ \A n, l : Location(n, l).parses = TRUE
    /\ \A n, l : Location(n, l).number = n
    /\ \A n, l : Location(n, l).location = l
  BY DEF Location

\* and of a missing one.
LEMMA NoValueFields == NoValue.given = "absent"
  <1> DEFINE blank == ""
  <1>1. NoValue = [given |-> "absent", parses |-> FALSE, number |-> 0, location |-> blank]
    BY Zenon DEF NoValue
  <1> HIDE DEF blank
  <1>2. QED BY <1>1

\* What a label says of a fault is parsed to the settings it was made from.
LEMMA LabelsParseBack ==
    ASSUME NEW name \in Spoken, NEW value \in Values, name \in WithValue => ~BadValue(name, value),
           NEW settings, settings = Settings(name, value), NEW said, said = ValueOf(name, settings)
    PROVE  /\ Settings(name, said) = settings
           /\ name \in WithoutValue => said.given = "absent"
           /\ name \in WithValue => said.given = "text" /\ ~BadValue(name, said)
  <1>1. CASE name = "latency"
    <2>1. settings = [dist |-> "fixed", value |-> value.number, jitter |-> 0]
      BY <1>1 DEF Settings
    <2>2. settings.value = value.number
      BY <2>1
    <2>3. said = Number(value.number)
      BY <1>1, <2>2 DEF ValueOf
    <2>4. said.number = value.number /\ said.parses = TRUE /\ said.given = "text"
      BY <2>3, NumberFields
    <2>5. Settings(name, said) = settings
      BY <1>1, <2>1, <2>4 DEF Settings
    <2>6. ~Below(value.number, 0)
      <3>1. ~BadValue("latency", value)
        BY <1>1 DEF WithValue
      <3>2. QED BY <3>1, Zenon DEF BadValue
    <2>7. ~Below(said.number, 0)
      BY <2>4, <2>6
    <2>8. ~BadValue("latency", said)
      BY <2>4, <2>7 DEF BadValue
    <2>9. QED BY <1>1, <2>4, <2>5, <2>8 DEF WithoutValue
  <1>2. CASE name = "status"
    <2>1. settings = [code |-> value.number, probability |-> 100, retryAfter |-> 0]
      BY <1>2 DEF Settings
    <2>2. settings.code = value.number
      BY <2>1
    <2>3. said = Number(value.number)
      BY <1>2, <2>2 DEF ValueOf
    <2>4. said.number = value.number /\ said.parses = TRUE /\ said.given = "text"
      BY <2>3, NumberFields
    <2>5. Settings(name, said) = settings
      BY <1>2, <2>1, <2>4 DEF Settings
    <2>6. Within(value.number, 100, 599)
      <3>1. ~BadValue("status", value)
        BY <1>2 DEF WithValue
      <3>2. QED BY <3>1, Zenon DEF BadValue
    <2>7. Within(said.number, 100, 599)
      BY <2>4, <2>6
    <2>8. ~BadValue("status", said)
      BY <2>4, <2>7 DEF BadValue
    <2>9. QED BY <1>2, <2>4, <2>5, <2>8 DEF WithoutValue
  <1>3. CASE name = "truncate"
    <2>1. settings = [at |-> value.number, probability |-> 100]
      BY <1>3 DEF Settings
    <2>2. settings.at = value.number
      BY <2>1
    <2>3. said = Number(value.number)
      BY <1>3, <2>2 DEF ValueOf
    <2>4. said.number = value.number /\ said.parses = TRUE /\ said.given = "text"
      BY <2>3, NumberFields
    <2>5. Settings(name, said) = settings
      BY <1>3, <2>1, <2>4 DEF Settings
    <2>6. ~BadProbability(value.number)
      <3>1. ~BadValue("truncate", value)
        BY <1>3 DEF WithValue
      <3>2. QED BY <3>1, Zenon DEF BadValue
    <2>7. ~BadProbability(said.number)
      BY <2>4, <2>6
    <2>8. ~BadValue("truncate", said)
      BY <2>4, <2>7 DEF BadValue
    <2>9. QED BY <1>3, <2>4, <2>5, <2>8 DEF WithoutValue
  <1>4. CASE name = "bandwidth"
    <2>1. settings = [bytesPerSecond |-> value.number]
      BY <1>4 DEF Settings
    <2>2. settings.bytesPerSecond = value.number
      BY <2>1
    <2>3. said = Number(value.number)
      BY <1>4, <2>2 DEF ValueOf
    <2>4. said.number = value.number /\ said.parses = TRUE /\ said.given = "text"
      BY <2>3, NumberFields
    <2>5. Settings(name, said) = settings
      BY <1>4, <2>1, <2>4 DEF Settings
    <2>6. ~(value.number <= 0)
      <3>1. ~BadValue("bandwidth", value)
        BY <1>4 DEF WithValue
      <3>2. QED BY <3>1, Zenon DEF BadValue
    <2>7. ~(said.number <= 0)
      BY <2>4, <2>6
    <2>8. ~BadValue("bandwidth", said)
      BY <2>4, <2>7 DEF BadValue
    <2>9. QED BY <1>4, <2>4, <2>5, <2>8 DEF WithoutValue
  <1>5. CASE name = "redirect"
    <2>1. settings = [code |-> value.number, location |-> value.location, probability |-> 100]
      BY <1>5 DEF Settings
    <2>2. settings.code = value.number /\ settings.location = value.location
      BY <2>1
    <2>3. said = Location(value.number, value.location)
      BY <1>5, <2>2 DEF ValueOf
    <2>4. said.number = value.number /\ said.location = value.location /\ said.parses = TRUE /\ said.given = "text"
      <3> DEFINE n == value.number  l == value.location
      <3>1. said = Location(n, l)
        BY <2>3
      <3> HIDE DEF n, l
      <3>2. said.number = n
        BY <3>1, LocationFields
      <3>3. said.location = l
        BY <3>1, LocationFields
      <3>4. said.parses = TRUE /\ said.given = "text"
        BY <3>1, LocationFields
      <3>5. QED BY <3>2, <3>3, <3>4 DEF n, l
    <2>5. Settings(name, said) = settings
      <3>1. Settings(name, said)
              = [code |-> said.number, location |-> said.location, probability |-> 100]
        BY <1>5 DEF Settings
      <3>2. QED BY <2>1, <2>4, <3>1, Zenon
    <2>6. value.location # "" /\ value.number \in RedirectCodes
      <3>1. ~BadValue("redirect", value)
        BY <1>5 DEF WithValue
      <3>2. QED BY <3>1, Zenon DEF BadValue
    <2>7. said.location # "" /\ said.number \in RedirectCodes
      BY <2>4, <2>6, Zenon
    <2>8. ~BadValue("redirect", said)
      BY <2>4, <2>7, Zenon DEF BadValue
    <2>9. QED BY <1>5, <2>4, <2>5, <2>8 DEF WithoutValue
  <1>6. CASE name \in {"hang", "reset"}
    <2>1. settings = [probability |-> 100] /\ \A v : Settings(name, v) = [probability |-> 100]
      BY <1>6 DEF Settings
    <2>2. said = NoValue
      BY <1>6 DEF ValueOf
    <2>3. said.given = "absent"
      BY <2>2, NoValueFields
    <2>4. Settings(name, said) = settings
      BY <2>1
    <2>5. name \notin WithValue
      BY <1>6 DEF WithValue
    <2>6. QED BY <2>3, <2>4, <2>5
  <1>7. QED BY <1>1, <1>2, <1>3, <1>4, <1>5, <1>6 DEF Spoken

\* A chain that lists faults has as many links.
LEMMA ListsCount ==
    ASSUME NEW S, NEW chain, Lists(chain, S)
    PROVE  IsFiniteSet(S) /\ Cardinality(S) = Len(chain)
  <1>1. chain \in Seq(S) /\ Len(chain) \in Nat /\ DOMAIN chain = 1 .. Len(chain)
    BY DEF Lists
  <1>2. chain \in [1 .. Len(chain) -> S]
    BY <1>1
  <1>3. chain \in Bijection(1 .. Len(chain), S)
    BY <1>1, <1>2 DEF Lists, Bijection, Injection, Surjection, IsInjective
  <1>4. IsFiniteSet(1 .. Len(chain)) /\ Cardinality(1 .. Len(chain)) = Len(chain)
    <2>1. \A n \in Nat : IsFiniteSet(1 .. n) /\ Cardinality(1 .. n) = n
      BY FS_Interval
    <2>2. QED BY <1>1, <2>1, Zenon
  <1>5. ExistsBijection(1 .. Len(chain), S)
    BY <1>3 DEF ExistsBijection
  <1>6. QED BY <1>4, <1>5, FS_Bijection

\* A part of a label names its fault and has its value.
LEMMA FieldsOfPart ==
    ASSUME NEW rule, NEW fault
    PROVE  PartOf(rule, fault).name = fault /\ PartOf(rule, fault).value = ValueOf(fault, rule[fault])
  BY DEF PartOf, Directive

\* The names of a label are the faults of its rule, each of which it has once.
LEMMA NamesOfLabel ==
    ASSUME NEW rule, NEW chain, Lists(chain, DOMAIN rule), NEW label, label = PartsOf(rule, chain)
    PROVE  /\ DOMAIN label = DOMAIN chain /\ Len(label) = Len(chain)
           /\ \A i \in DOMAIN label : /\ label[i] = PartOf(rule, chain[i])
                                      /\ chain[i] \in DOMAIN rule
           /\ Names(label) = DOMAIN rule
           /\ \A fault \in DOMAIN rule : Named(label, fault) = PartOf(rule, fault)
  <1>1. chain \in Seq(DOMAIN rule) /\ DOMAIN chain = 1 .. Len(chain) /\ Len(chain) \in Nat
    BY DEF Lists
  <1>2. DOMAIN label = DOMAIN chain /\ \A i \in DOMAIN label : label[i] = PartOf(rule, chain[i])
    BY DEF PartsOf
  <1>3. Len(label) = Len(chain)
    <2> DEFINE n == Len(chain)
    <2>1. label = [i \in 1 .. n |-> PartOf(rule, chain[i])]
      BY <1>1 DEF PartsOf
    <2> HIDE DEF n
    <2>2. n \in Nat
      BY <1>1 DEF n
    <2>3. Len(label) = n
      BY <2>1, <2>2
    <2>4. QED BY <2>3 DEF n
  <1>4. \A i \in DOMAIN chain : chain[i] \in DOMAIN rule
    BY <1>1, ElementOf
  <1>5. \A i \in DOMAIN label : label[i].name = chain[i]
    BY <1>2, FieldsOfPart
  <1>6. Names(label) = DOMAIN rule
    <2>1. \A fault \in DOMAIN rule : \E i \in DOMAIN label : label[i].name = fault
      BY <1>2, <1>5 DEF Lists
    <2>2. Names(label) \subseteq DOMAIN rule
      <3>1. \A i \in DOMAIN label : label[i].name \in DOMAIN rule
        BY <1>2, <1>4, <1>5
      <3>2. QED BY <3>1 DEF Names
    <2>3. DOMAIN rule \subseteq Names(label)
      BY <2>1 DEF Names
    <2>4. QED BY <2>2, <2>3
  <1>7. ASSUME NEW fault \in DOMAIN rule
        PROVE  Named(label, fault) = PartOf(rule, fault)
    <2> DEFINE d == Named(label, fault)
    <2>1. \E e \in Range(label) : e.name = fault
      <3>1. PICK i \in DOMAIN label : label[i].name = fault
        BY <1>2, <1>5 DEF Lists
      <3>2. label[i] \in Range(label)
        BY <3>1 DEF Range
      <3>3. QED BY <3>1, <3>2
    <2>2. d \in Range(label) /\ d.name = fault
      BY <2>1 DEF Named
    <2> HIDE DEF d
    <2>3. PICK j \in DOMAIN label : d = label[j]
      BY <2>2 DEF Range
    <2>4. chain[j] = fault
      BY <1>5, <2>2, <2>3
    <2>5. QED BY <1>2, <2>3, <2>4 DEF d
  <1>8. QED BY <1>2, <1>3, <1>4, <1>6, <1>7

\* The label of no fault at all, "off", parses to itself.
LEMMA OffIsOff == ParseFaults(OffLabel) = Parsed(FALSE, NoRule, OffLabel)
  <1> DEFINE off == Directive("off", NoValue)
  <1>1. DOMAIN OffLabel = {1} /\ OffLabel[1] = off /\ Len(OffLabel) = 1
    BY DEF OffLabel
  <1>2. off.name = "off" /\ off.value = NoValue
    BY DEF Directive
  <1> HIDE DEF off
  <1>3. Names(OffLabel) = {"off"}
    BY <1>1, <1>2 DEF Names
  <1>4. Cardinality({"off"}) = 1
    BY FS_Singleton
  <1>5. ~Wrong(off)
    BY <1>2, NoValueFields DEF Wrong, WithoutValue, WithValue
  <1>6. {"off"} \cap EndsTheRequest = {}
    BY DEF EndsTheRequest
  <1>7. Cardinality({}) = 0
    BY FS_EmptySet
  <1>8. ~Rejected(OffLabel)
    BY <1>1, <1>3, <1>4, <1>5, <1>6, <1>7 DEF Rejected
  <1>9. QED BY <1>3, <1>8, ParseFaultsIs

\* What parses back is the same rule with the same label, in the order of the chain.
LEMMA LabelsParseToTheirDirectives ==
    ASSUME NEW cors, NEW directives \in Seq(Directives) \ {<<>>}
    PROVE  DirectivesMeanTheirLabel(cors, directives)
  <1> DEFINE parsed == ParseFaults(directives)
             rule == parsed.rule
             label == parsed.label
             names == [i \in DOMAIN label |-> label[i].name]
  <1>1. SUFFICES ASSUME ~parsed.error
                 PROVE  /\ ParseFaults(label) = parsed
                        /\ names = IF rule = NoRule THEN <<"off">> ELSE Build(rule)
    BY ParsedDirectivesPlay DEF DirectivesMeanTheirLabel
  <1>2. ~Rejected(directives)
    BY <1>1, Accepted
  <1>3. CASE Names(directives) = {"off"}
    <2>1. rule = NoRule /\ label = OffLabel
      BY <1>1, <1>3, Accepted
    <2>2. parsed = Parsed(FALSE, NoRule, OffLabel)
      BY <1>2, <1>3, ParseFaultsIs
    <2> HIDE DEF parsed, rule, label
    <2>3. ParseFaults(label) = parsed
      BY <2>1, <2>2, OffIsOff
    <2>4. names = <<"off">>
      <3>1. DOMAIN label = 1 .. 1 /\ label[1].name = "off"
        BY <2>1 DEF OffLabel, Directive
      <3>2. QED BY <3>1
    <2> HIDE DEF names
    <2>5. QED BY <2>1, <2>3, <2>4
  <1>4. CASE Names(directives) # {"off"}
    <2>1. "off" \notin Names(directives) /\ rule = Asked(directives) /\ label = describeFaults(rule)
      BY <1>1, <1>4, Accepted
    <2>2. parsed = Parsed(FALSE, rule, label)
      BY <1>2, <1>4, <2>1, ParseFaultsIs
    <2> HIDE DEF parsed, rule, label
    <2>3. DOMAIN rule = Names(directives) /\ DOMAIN rule # {}
      <3>1. DOMAIN rule = Names(directives)
        BY <2>1 DEF Asked
      <3>2. 1 \in DOMAIN directives
        OBVIOUS
      <3>3. QED BY <3>1, <3>2 DEF Names
    <2>4. \A name \in DOMAIN rule :
              LET value == Named(directives, name).value
              IN  /\ name \in Spoken /\ value \in Values
                  /\ name \in WithValue => ~BadValue(name, value)
                  /\ rule[name] = Settings(name, value)
      <3>1. ASSUME NEW name \in DOMAIN rule
            PROVE  LET value == Named(directives, name).value
                   IN  /\ name \in Spoken /\ value \in Values
                       /\ name \in WithValue => ~BadValue(name, value)
                       /\ rule[name] = Settings(name, value)
        <4> DEFINE value == Named(directives, name).value
        <4>1. /\ value \in Values /\ name \in WithoutValue \cup WithValue /\ name # "off"
              /\ name \in WithValue => ~BadValue(name, value)
          BY <1>2, <2>1, <2>3, NamedIsGood
        <4>2. name \in Spoken
          BY <4>1 DEF WithoutValue, WithValue, Spoken
        <4>3. rule[name] = Settings(name, value)
          BY <2>1, <2>3 DEF Asked
        <4>4. QED BY <4>1, <4>2, <4>3
      <3>2. QED BY <3>1
    <2>5. DOMAIN rule \subseteq Spoken
      BY <2>4
    <2> DEFINE chain == Build(rule)
    <2>6. Lists(chain, DOMAIN rule) /\ label = PartsOf(rule, chain)
      BY <2>1, <2>5, LabelFollowsChain
    <2> HIDE DEF chain
    <2>7. /\ DOMAIN label = DOMAIN chain /\ Len(label) = Len(chain)
          /\ \A i \in DOMAIN label : label[i] = PartOf(rule, chain[i]) /\ chain[i] \in DOMAIN rule
          /\ Names(label) = DOMAIN rule
          /\ \A fault \in DOMAIN rule : Named(label, fault) = PartOf(rule, fault)
      BY <2>6, NamesOfLabel
    <2>8. \A name \in DOMAIN rule :
              LET said == ValueOf(name, rule[name])
              IN  /\ Settings(name, said) = rule[name]
                  /\ name \in WithoutValue => said.given = "absent"
                  /\ name \in WithValue => said.given = "text" /\ ~BadValue(name, said)
      BY <2>4, LabelsParseBack
    <2>9. ~Rejected(label)
      <3>1. Cardinality(Names(label)) = Len(label)
        BY <2>6, <2>7, ListsCount
      <3>2. ASSUME NEW i \in DOMAIN label PROVE ~Wrong(label[i])
        <4> DEFINE name == chain[i]
        <4>1. name \in DOMAIN rule /\ label[i].name = name /\ label[i].value = ValueOf(name, rule[name])
          BY <2>7, FieldsOfPart
        <4>2. name \in WithoutValue \cup WithValue
          BY <2>5, <4>1 DEF Spoken, WithoutValue, WithValue
        <4> HIDE DEF name
        <4>3. QED BY <2>8, <4>1, <4>2 DEF Wrong
      <3>3. "off" \notin Names(label)
        BY <2>1, <2>3, <2>7
      <3>4. ~(Cardinality(Names(label) \cap EndsTheRequest) > 1)
        BY <1>2, <2>3, <2>7 DEF Rejected
      <3>5. QED BY <3>1, <3>2, <3>3, <3>4 DEF Rejected
    <2>10. Asked(label) = rule
      <3>1. \A name \in DOMAIN rule : Settings(name, Named(label, name).value) = rule[name]
        BY <2>7, <2>8, FieldsOfPart
      <3>2. Asked(label) = [name \in DOMAIN rule |-> Settings(name, Named(label, name).value)]
        BY <2>7 DEF Asked
      <3>3. rule = [name \in DOMAIN rule |-> rule[name]]
        BY <2>1 DEF Asked
      <3>4. QED BY <3>1, <3>2, <3>3
    <2>11. Names(label) # {"off"}
      BY <2>1, <2>3, <2>7
    <2>12. ParseFaults(label) = parsed
      BY <2>1, <2>2, <2>9, <2>10, <2>11, ParseFaultsIs
    <2>13. names = chain
      <3>1. \A i \in DOMAIN chain : label[i].name = chain[i]
        BY <2>7, FieldsOfPart
      <3>2. chain = [i \in DOMAIN chain |-> chain[i]]
        BY <2>6 DEF Lists
      <3>3. QED BY <2>7, <3>1, <3>2
    <2>14. rule # NoRule
      BY <2>3 DEF NoRule
    <2> HIDE DEF names
    <2>15. QED BY <2>12, <2>13, <2>14 DEF chain
  <1>5. QED BY <1>3, <1>4

-------------------------------------------------------------------------------
(* Bodies that readers cut and slow down, however they are read.            *)

States == [left : Nat, remaining : Int, stallSent : Nat, stalled : BOOLEAN, clock : Nat, sent : Nat]
Readings == [state : States, read : Nat, err : {"none", "EOF", "truncated"}]

\* A Read of the body returns bytes or its end.
LEMMA BodyRead ==
    ASSUME NEW body \in Bodies, NEW truncate \in Truncations, NEW s \in States, NEW size \in Nat \ {0},
           NEW r, r = bodyRead(body, truncate, s, size)
    PROVE  /\ r \in Readings
           /\ r.state = [s EXCEPT !.left = @ - r.read]
           /\ r.read <= s.left /\ r.read <= size
           /\ r.err = "none" => r.read > 0
           /\ r.err \in {"none", "EOF"}
           /\ r.err = "EOF" => r.read = s.left
  <1> DEFINE ahead == Cuts(truncate) /\ ~body.known
             most == IF ahead THEN size ELSE Smaller(size, body.chunk)
             read == Smaller(s.left, most)
             rest == s.left - read
             err == IF rest = 0 /\ (read = 0 \/ (body.eofWithData /\ ~ahead)) THEN "EOF" ELSE "none"
  <1>1. r = [state |-> [s EXCEPT !.left = rest], read |-> read, err |-> err]
    BY DEF bodyRead, Got
  <1>2. s.left \in Nat /\ body.chunk \in Nat \ {0}
    BY DEF States, Bodies
  <1>3. most \in Nat \ {0} /\ most <= size
    <2> HIDE DEF ahead
    <2>1. QED BY <1>2 DEF Smaller
  <1>4. read \in Nat /\ read <= s.left /\ read <= most /\ (read = 0 => s.left = 0)
    <2> HIDE DEF most
    <2>1. QED BY <1>2, <1>3 DEF Smaller
  <1> HIDE DEF read, most, ahead
  <1>5. rest \in Nat /\ (rest = 0 <=> read = s.left)
    BY <1>2, <1>4
  <1>6. [s EXCEPT !.left = rest] \in States
    <2> HIDE DEF rest
    <2>1. QED BY <1>5 DEF States
  <1>7. /\ err \in {"none", "EOF"}
        /\ err = "EOF" => rest = 0
        /\ err = "none" => ~(rest = 0 /\ read = 0)
    BY <1>5
  <1>8. r.state = [s EXCEPT !.left = rest] /\ r.read = read /\ r.err = err
    BY <1>1
  <1> HIDE DEF err
  <1>9. r \in Readings
    BY <1>1, <1>4, <1>6, <1>7 DEF Readings
  <1>10. r.state = [s EXCEPT !.left = @ - r.read]
    BY <1>8 DEF rest
  <1>11. r.err = "none" => r.read > 0
    BY <1>2, <1>4, <1>5, <1>7, <1>8
  <1>12. QED BY <1>2, <1>3, <1>4, <1>5, <1>7, <1>8, <1>9, <1>10, <1>11

\* A Read through truncate: bytes of its allowance, the body's end, or the cut.
LEMMA TruncatedRead ==
    ASSUME NEW body \in Bodies, NEW truncate \in Truncations, NEW s \in States, NEW size \in Nat \ {0},
           Cuts(truncate) => 0 <= s.remaining /\ (s.remaining > 0 => s.remaining < s.left),
           NEW r, r = truncatedRead(body, truncate, s, size)
    PROVE  /\ r \in Readings
           /\ r.state.left = s.left - r.read
           /\ r.state.remaining = IF Cuts(truncate) THEN s.remaining - r.read ELSE s.remaining
           /\ r.state.stallSent = s.stallSent /\ r.state.stalled = s.stalled
           /\ r.state.clock = s.clock /\ r.state.sent = s.sent
           /\ r.read <= s.left /\ r.read <= size
           /\ Cuts(truncate) => r.read <= s.remaining
           /\ r.err = "none" => r.read > 0
           /\ r.err = "EOF" => ~Cuts(truncate) /\ r.read = s.left
           /\ r.err = "truncated" => Cuts(truncate) /\ r.read = 0 /\ s.remaining = 0
  <1>1. s.left \in Nat /\ s.remaining \in Int
    BY DEF States
  <1>2. CASE ~Cuts(truncate)
    <2>1. r = bodyRead(body, truncate, s, size)
      BY <1>2 DEF truncatedRead
    <2>2. /\ r \in Readings
          /\ r.state = [s EXCEPT !.left = @ - r.read]
          /\ r.read <= s.left /\ r.read <= size
          /\ r.err = "none" => r.read > 0
          /\ r.err \in {"none", "EOF"}
          /\ r.err = "EOF" => r.read = s.left
      BY <2>1, BodyRead
    <2>3. /\ r.state.left = s.left - r.read /\ r.state.remaining = s.remaining
          /\ r.state.stallSent = s.stallSent /\ r.state.stalled = s.stalled
          /\ r.state.clock = s.clock /\ r.state.sent = s.sent
      BY <2>2 DEF States
    <2>4. QED BY <1>2, <2>2, <2>3
  <1>3. CASE Cuts(truncate) /\ s.remaining <= 0
    <2>1. r = Got(s, 0, "truncated")
      BY <1>3 DEF truncatedRead
    <2>2. r.state = s /\ r.read = 0 /\ r.err = "truncated" /\ r \in Readings
      BY <2>1 DEF Got, Readings
    <2>3. s.left - 0 = s.left /\ s.remaining - 0 = s.remaining
      BY <1>1
    <2>4. s.remaining = 0 /\ 0 <= size /\ 0 <= s.left
      BY <1>1, <1>3
    <2>5. QED BY <1>3, <2>2, <2>3, <2>4
  <1>4. CASE Cuts(truncate) /\ ~(s.remaining <= 0)
    <2> DEFINE allowed == Smaller(size, s.remaining)
               inner == bodyRead(body, truncate, s, allowed)
    <2>1. r = [inner EXCEPT !.state.remaining = @ - inner.read]
      BY <1>4 DEF truncatedRead
    <2>2. allowed \in Nat \ {0} /\ allowed <= size /\ allowed <= s.remaining
      BY <1>1, <1>4 DEF Smaller
    <2> HIDE DEF allowed
    <2>3. /\ inner \in Readings
          /\ inner.state = [s EXCEPT !.left = @ - inner.read]
          /\ inner.read <= s.left /\ inner.read <= allowed
          /\ inner.err = "none" => inner.read > 0
          /\ inner.err \in {"none", "EOF"}
          /\ inner.err = "EOF" => inner.read = s.left
      BY <2>2, BodyRead
    <2> HIDE DEF inner
    <2>4. inner.read \in Nat /\ inner.state \in States
      BY <2>3 DEF Readings
    <2>5. /\ inner.state.left = s.left - inner.read /\ inner.state.remaining = s.remaining
          /\ inner.state.stallSent = s.stallSent /\ inner.state.stalled = s.stalled
          /\ inner.state.clock = s.clock /\ inner.state.sent = s.sent
      BY <2>3 DEF States
    <2>6. /\ r.state = [inner.state EXCEPT !.remaining = @ - inner.read]
          /\ r.read = inner.read /\ r.err = inner.err
      BY <2>1, <2>3 DEF Readings
    <2>7. /\ r.state.left = inner.state.left /\ r.state.remaining = s.remaining - inner.read
          /\ r.state.stallSent = inner.state.stallSent /\ r.state.stalled = inner.state.stalled
          /\ r.state.clock = inner.state.clock /\ r.state.sent = inner.state.sent
      BY <2>4, <2>5, <2>6 DEF States
    <2>8. [inner.state EXCEPT !.remaining = @ - inner.read] \in States
      BY <1>1, <2>4, <2>5 DEF States
    <2>9. r \in Readings
      BY <2>1, <2>3, <2>8 DEF Readings
    <2>10. r.err # "EOF" /\ r.err # "truncated"
      BY <1>1, <1>4, <2>2, <2>3, <2>4, <2>6
    <2>11. r.read <= size /\ r.read <= s.remaining /\ r.read <= s.left
      BY <1>1, <2>2, <2>3, <2>4, <2>6
    <2>12. QED BY <1>4, <2>3, <2>5, <2>6, <2>7, <2>9, <2>10, <2>11
  <1>5. QED BY <1>2, <1>3, <1>4

Due(stall, s) == ~s.stalled /\ s.stallSent >= stall.afterBytes
Waited(stall, s) == IF Due(stall, s) THEN s.clock + stall.duration ELSE s.clock

\* A Read through stall counts its bytes, and stops where the pause is due.
LEMMA StalledRead ==
    ASSUME NEW body \in Bodies, NEW truncate \in Truncations, NEW stall \in Stalls,
           NEW s \in States, NEW size \in Nat \ {0},
           Cuts(truncate) => 0 <= s.remaining /\ (s.remaining > 0 => s.remaining < s.left),
           NEW r, r = stalledRead(body, truncate, stall, s, size)
    PROVE  /\ r \in Readings
           /\ r.state.left = s.left - r.read
           /\ r.state.remaining = IF Cuts(truncate) THEN s.remaining - r.read ELSE s.remaining
           /\ r.state.stallSent = s.stallSent + r.read
           /\ r.state.stalled = (s.stalled \/ Due(stall, s))
           /\ r.state.clock = Waited(stall, s)
           /\ r.state.sent = s.sent
           /\ r.read <= s.left
           /\ Cuts(truncate) => r.read <= s.remaining
           /\ ~r.state.stalled => s.stallSent + r.read <= stall.afterBytes
           /\ r.err = "none" => r.read > 0
           /\ r.err = "EOF" => ~Cuts(truncate) /\ r.read = s.left
           /\ r.err = "truncated" => Cuts(truncate) /\ r.read = 0 /\ s.remaining = 0
  <1> DEFINE due == ~s.stalled /\ s.stallSent >= stall.afterBytes
             waited == IF due THEN [s EXCEPT !.stalled = TRUE, !.clock = @ + stall.duration] ELSE s
             allowed == IF waited.stalled THEN size ELSE Smaller(size, stall.afterBytes - s.stallSent)
             inner == truncatedRead(body, truncate, waited, allowed)
  <1>1. r = [inner EXCEPT !.state.stallSent = @ + inner.read]
    BY DEF stalledRead
  <1>2. /\ s.left \in Nat /\ s.remaining \in Int /\ s.stallSent \in Nat /\ s.stalled \in BOOLEAN
        /\ s.clock \in Nat /\ stall.duration \in Nat /\ stall.afterBytes \in Nat
    BY DEF States, Stalls
  <1>3. due <=> Due(stall, s)
    BY DEF Due
  <1> HIDE DEF due
  <1>4. /\ waited \in States
        /\ waited.left = s.left /\ waited.remaining = s.remaining /\ waited.stallSent = s.stallSent
        /\ waited.stalled = (s.stalled \/ due)
        /\ waited.sent = s.sent
        /\ waited.clock = Waited(stall, s)
    <2>1. CASE due
      <3>1. waited = [s EXCEPT !.stalled = TRUE, !.clock = s.clock + stall.duration]
        BY <2>1
      <3>2. s.clock + stall.duration \in Nat
        BY <1>2
      <3>3. Waited(stall, s) = s.clock + stall.duration
        BY <1>3, <2>1 DEF Waited
      <3> HIDE DEF waited
      <3>4. QED BY <2>1, <3>1, <3>2, <3>3 DEF States
    <2>2. CASE ~due
      <3>1. waited = s /\ Waited(stall, s) = s.clock
        BY <1>3, <2>2 DEF Waited
      <3>2. (s.stalled \/ due) = s.stalled
        BY <1>2, <2>2
      <3>3. QED BY <3>1, <3>2
    <2>3. QED BY <2>1, <2>2
  <1>5. ~waited.stalled => s.stallSent < stall.afterBytes
    BY <1>2, <1>4 DEF due
  <1> HIDE DEF waited
  <1>6. allowed \in Nat \ {0} /\ allowed <= size
        /\ (~waited.stalled => allowed <= stall.afterBytes - s.stallSent)
    BY <1>2, <1>5 DEF Smaller
  <1> HIDE DEF allowed
  <1>7. Cuts(truncate) => 0 <= waited.remaining /\ (waited.remaining > 0 => waited.remaining < waited.left)
    BY <1>4
  <1>8. /\ inner \in Readings
        /\ inner.state.left = waited.left - inner.read
        /\ inner.state.remaining
               = IF Cuts(truncate) THEN waited.remaining - inner.read ELSE waited.remaining
        /\ inner.state.stallSent = waited.stallSent /\ inner.state.stalled = waited.stalled
        /\ inner.state.clock = waited.clock /\ inner.state.sent = waited.sent
        /\ inner.read <= waited.left /\ inner.read <= allowed
        /\ Cuts(truncate) => inner.read <= waited.remaining
        /\ inner.err = "none" => inner.read > 0
        /\ inner.err = "EOF" => ~Cuts(truncate) /\ inner.read = waited.left
        /\ inner.err = "truncated" => Cuts(truncate) /\ inner.read = 0 /\ waited.remaining = 0
    <2>1. waited \in States /\ allowed \in Nat \ {0}
      BY <1>4, <1>6
    <2>2. QED BY <1>7, <2>1, TruncatedRead
  <1> HIDE DEF inner
  <1>9. inner.read \in Nat /\ inner.state \in States
    BY <1>8 DEF Readings
  <1>10. /\ inner.state.left = s.left - inner.read
         /\ inner.state.remaining = IF Cuts(truncate) THEN s.remaining - inner.read ELSE s.remaining
         /\ inner.state.stallSent = s.stallSent /\ inner.state.sent = s.sent
         /\ inner.state.stalled = waited.stalled /\ inner.state.clock = waited.clock
         /\ inner.read <= s.left
         /\ Cuts(truncate) => inner.read <= s.remaining
         /\ inner.err = "EOF" => ~Cuts(truncate) /\ inner.read = s.left
         /\ inner.err = "truncated" => Cuts(truncate) /\ inner.read = 0 /\ s.remaining = 0
    BY <1>4, <1>8
  <1>11. /\ r.state = [inner.state EXCEPT !.stallSent = @ + inner.read]
         /\ r.read = inner.read /\ r.err = inner.err
    BY <1>1, <1>8 DEF Readings
  <1>12. inner.state.stallSent + inner.read \in Nat
    BY <1>9 DEF States
  <1>13. [inner.state EXCEPT !.stallSent = @ + inner.read] \in States
    BY <1>9, <1>12 DEF States
  <1>14. r \in Readings
    BY <1>1, <1>8, <1>13 DEF Readings
  <1>15. /\ r.state.left = inner.state.left /\ r.state.remaining = inner.state.remaining
         /\ r.state.stallSent = s.stallSent + inner.read /\ r.state.stalled = inner.state.stalled
         /\ r.state.clock = inner.state.clock /\ r.state.sent = inner.state.sent
    BY <1>9, <1>10, <1>11 DEF States
  <1>16. ~r.state.stalled => s.stallSent + r.read <= stall.afterBytes
    BY <1>2, <1>6, <1>8, <1>9, <1>10, <1>11, <1>15
  <1>17. r.state.stalled = (s.stalled \/ Due(stall, s)) /\ r.state.clock = Waited(stall, s)
    BY <1>3, <1>4, <1>10, <1>15
  <1>18. QED BY <1>8, <1>10, <1>11, <1>14, <1>15, <1>16, <1>17

AtRate(bandwidth, bytes) == IF bandwidth.on THEN bytes ELSE 0

\* A Read of the outermost reader, bandwidth's: it waits until the bytes are due.
LEMMA ThrottledRead ==
    ASSUME NEW body \in Bodies, NEW truncate \in Truncations, NEW stall \in Stalls,
           NEW bandwidth \in Bandwidths, NEW s \in States, NEW size \in Nat \ {0},
           Cuts(truncate) => 0 <= s.remaining /\ (s.remaining > 0 => s.remaining < s.left),
           NEW r, r = throttledRead(body, truncate, stall, bandwidth, s, size)
    PROVE  /\ r \in Readings
           /\ r.state.left = s.left - r.read
           /\ r.state.remaining = IF Cuts(truncate) THEN s.remaining - r.read ELSE s.remaining
           /\ r.state.stallSent = s.stallSent + r.read
           /\ r.state.stalled = (s.stalled \/ Due(stall, s))
           /\ r.state.sent = s.sent + r.read
           /\ r.state.clock = IF bandwidth.on THEN Larger(Waited(stall, s), s.sent + r.read)
                                              ELSE Waited(stall, s)
           /\ r.read <= s.left
           /\ Cuts(truncate) => r.read <= s.remaining
           /\ ~r.state.stalled => s.stallSent + r.read <= stall.afterBytes
           /\ r.err = "none" => r.read > 0
           /\ r.err = "EOF" => ~Cuts(truncate) /\ r.read = s.left
           /\ r.err = "truncated" => Cuts(truncate) /\ r.read = 0 /\ s.remaining = 0
  <1> DEFINE most == IF bandwidth.on THEN Smaller(size, bandwidth.chunk) ELSE size
             inner == stalledRead(body, truncate, stall, s, most)
             sent == s.sent + inner.read
             clock == IF bandwidth.on THEN Larger(inner.state.clock, sent) ELSE inner.state.clock
  <1>1. r = Got([inner.state EXCEPT !.sent = sent, !.clock = clock], inner.read, inner.err)
    BY DEF throttledRead
  <1>2. most \in Nat \ {0}
    BY DEF Smaller, Bandwidths
  <1> HIDE DEF most
  <1>3. /\ inner \in Readings
        /\ inner.state.left = s.left - inner.read
        /\ inner.state.remaining = IF Cuts(truncate) THEN s.remaining - inner.read ELSE s.remaining
        /\ inner.state.stallSent = s.stallSent + inner.read
        /\ inner.state.stalled = (s.stalled \/ Due(stall, s))
        /\ inner.state.clock = Waited(stall, s)
        /\ inner.state.sent = s.sent
        /\ inner.read <= s.left
        /\ Cuts(truncate) => inner.read <= s.remaining
        /\ ~inner.state.stalled => s.stallSent + inner.read <= stall.afterBytes
        /\ inner.err = "none" => inner.read > 0
        /\ inner.err = "EOF" => ~Cuts(truncate) /\ inner.read = s.left
        /\ inner.err = "truncated" => Cuts(truncate) /\ inner.read = 0 /\ s.remaining = 0
    BY <1>2, StalledRead
  <1> HIDE DEF inner
  <1>4. inner.read \in Nat /\ inner.state \in States /\ s.sent \in Nat
    BY <1>3 DEF Readings, States
  <1>5. sent \in Nat /\ inner.state.clock \in Nat
    BY <1>4 DEF States
  <1>6. clock \in Nat
    <2> HIDE DEF sent
    <2>1. QED BY <1>5 DEF Larger
  <1>7. /\ r.state = [inner.state EXCEPT !.sent = sent, !.clock = clock]
        /\ r.read = inner.read /\ r.err = inner.err
        /\ r = [state |-> [inner.state EXCEPT !.sent = sent, !.clock = clock],
                read |-> inner.read, err |-> inner.err]
    BY <1>1 DEF Got
  <1> HIDE DEF sent, clock
  <1>9. [inner.state EXCEPT !.sent = sent, !.clock = clock] \in States
    BY <1>4, <1>5, <1>6 DEF States
  <1>10. r \in Readings
    BY <1>3, <1>7, <1>9 DEF Readings
  <1>11. /\ r.state.left = inner.state.left /\ r.state.remaining = inner.state.remaining
         /\ r.state.stallSent = inner.state.stallSent /\ r.state.stalled = inner.state.stalled
         /\ r.state.clock = clock /\ r.state.sent = sent
    BY <1>4, <1>7 DEF States
  <1>12. /\ sent = s.sent + r.read
         /\ clock = IF bandwidth.on THEN Larger(Waited(stall, s), s.sent + r.read) ELSE Waited(stall, s)
    BY <1>3, <1>7 DEF sent, clock
  <1>13. QED BY <1>3, <1>7, <1>10, <1>11, <1>12

\* truncate's share of a body is part of it, and less than all of it.
LEMMA Share ==
    ASSUME NEW body \in Bodies, NEW truncate \in Truncations
    PROVE  /\ Delivered(body, truncate) \in Nat
           /\ Delivered(body, truncate) <= body.length
           /\ Cuts(truncate) /\ Delivered(body, truncate) > 0 => Delivered(body, truncate) < body.length
  <1>1. body.length \in Nat /\ truncate.at \in 0 .. 100
    BY DEF Bodies, Truncations
  <1>2. CASE ~Cuts(truncate)
    BY <1>1, <1>2 DEF Delivered
  <1>3. CASE Cuts(truncate)
    <2> DEFINE counted == Counted(body)
               share == counted * truncate.at
    <2>1. counted \in Nat /\ counted <= body.length
      BY <1>1, BufferAssumption DEF Counted, Smaller
    <2>2. truncate.at \in 0 .. 99
      BY <1>1, <1>3 DEF Cuts
    <2>3. Delivered(body, truncate) = share \div 100
      BY <1>3 DEF Delivered
    <2> HIDE DEF counted
    <2>4. share \in Nat /\ share <= counted * 99
      <3> DEFINE at == truncate.at
      <3>1. at \in Nat /\ at <= 99
        BY <2>2
      <3> HIDE DEF at
      <3>2. counted * at \in Nat /\ counted * at <= counted * 99
        BY <2>1, <3>1
      <3>3. QED BY <3>2 DEF at
    <2> HIDE DEF share
    <2>5. /\ share \div 100 \in Nat /\ 100 * (share \div 100) <= share
      BY <2>4
    <2>6. QED BY <1>1, <2>1, <2>3, <2>4, <2>5
  <1>4. QED BY <1>2, <1>3

\* Between two Reads the readers agree on the bytes delivered, and the clock shows the
\* time of the slower of rate and pause.
Kept(body, truncate, stall, bandwidth, s) ==
    /\ s \in States
    /\ s.left + s.sent = body.length
    /\ s.stallSent = s.sent
    /\ Cuts(truncate) => 0 <= s.remaining /\ s.remaining + s.sent = Delivered(body, truncate)
    /\ ~stall.on => s.stalled
    /\ IF stall.on /\ s.stalled
       THEN /\ stall.afterBytes <= s.sent
            /\ s.clock = Larger(AtRate(bandwidth, s.sent),
                                AtRate(bandwidth, stall.afterBytes) + stall.duration)
       ELSE s.clock = AtRate(bandwidth, s.sent) /\ (stall.on => s.sent <= stall.afterBytes)

\* The readers as Build wraps them are as they should be.
LEMMA WrapIsKept ==
    ASSUME NEW body \in Bodies, NEW truncate \in Truncations, NEW stall \in Stalls,
           NEW bandwidth \in Bandwidths
    PROVE  Kept(body, truncate, stall, bandwidth, Wrap(body, truncate, stall))
  <1> DEFINE s == Wrap(body, truncate, stall)
             share == (Counted(body) * truncate.at) \div 100
  <1>1. s = [left |-> body.length, remaining |-> share, stallSent |-> 0, stalled |-> ~stall.on,
             clock |-> 0, sent |-> 0]
    BY DEF Wrap
  <1>2. body.length \in Nat /\ truncate.at \in Nat /\ stall.on \in BOOLEAN /\ stall.afterBytes \in Nat
    BY DEF Bodies, Truncations, Stalls
  <1>3. Counted(body) \in Nat
    BY <1>2, BufferAssumption DEF Counted, Smaller
  <1>4. Counted(body) * truncate.at \in Nat
    BY <1>2, <1>3
  <1>5. share \in Nat
    BY <1>4
  <1>6. Cuts(truncate) => share = Delivered(body, truncate)
    BY DEF Delivered
  <1> HIDE DEF s, share
  <1>7. s \in States
    BY <1>1, <1>2, <1>5 DEF States
  <1>8. /\ s.left = body.length /\ s.remaining = share /\ s.stallSent = 0 /\ s.stalled = ~stall.on
        /\ s.clock = 0 /\ s.sent = 0
    BY <1>1
  <1>9. AtRate(bandwidth, 0) = 0
    BY DEF AtRate
  <1>10. Kept(body, truncate, stall, bandwidth, s)
    <2>1. s.left + s.sent = body.length /\ s.stallSent = s.sent
      BY <1>2, <1>8
    <2>2. Cuts(truncate) => 0 <= s.remaining /\ s.remaining + s.sent = Delivered(body, truncate)
      BY <1>5, <1>6, <1>8
    <2>3. s.stalled <=> ~stall.on
      BY <1>8, Zenon
    <2>4. ~(stall.on /\ s.stalled) /\ (~stall.on => s.stalled)
      BY <2>3
    <2>5. s.clock = AtRate(bandwidth, s.sent) /\ s.sent <= stall.afterBytes
      BY <1>2, <1>8, <1>9
    <2>6. QED BY <1>7, <2>1, <2>2, <2>4, <2>5 DEF Kept
  <1>11. QED BY <1>10 DEF s

\* A Read keeps it so, returns a byte unless it fails or ends, ends with
\* the bytes promised, and does not pass the byte the pause comes after.
LEMMA ReadKeeps ==
    ASSUME NEW body \in Bodies, NEW truncate \in Truncations, NEW stall \in Stalls,
           NEW bandwidth \in Bandwidths, NEW size \in Nat \ {0},
           NEW s, Kept(body, truncate, stall, bandwidth, s),
           NEW r, r = throttledRead(body, truncate, stall, bandwidth, s, size)
    PROVE  /\ r \in Readings
           /\ Kept(body, truncate, stall, bandwidth, r.state)
           /\ s.sent <= r.state.sent
           /\ r.err = "none" => s.sent < r.state.sent
           /\ r.err # "none" => /\ r.err = IF Cuts(truncate) THEN "truncated" ELSE "EOF"
                                /\ r.state.sent = Delivered(body, truncate)
           /\ stall.on /\ s.sent < stall.afterBytes /\ stall.afterBytes <= r.state.sent =>
                  /\ r.state.sent = stall.afterBytes
                  /\ r.state.clock = AtRate(bandwidth, stall.afterBytes)
  <1> DEFINE total == Delivered(body, truncate)
             after == stall.afterBytes
  <1>1. /\ body.length \in Nat /\ after \in Nat /\ stall.duration \in Nat /\ stall.on \in BOOLEAN
        /\ bandwidth.on \in BOOLEAN
    BY DEF Bodies, Stalls, Bandwidths
  <1>2. /\ s \in States
        /\ s.left + s.sent = body.length
        /\ s.stallSent = s.sent
        /\ Cuts(truncate) => 0 <= s.remaining /\ s.remaining + s.sent = total
        /\ ~stall.on => s.stalled
        /\ stall.on /\ s.stalled =>
               /\ after <= s.sent
               /\ s.clock = Larger(AtRate(bandwidth, s.sent), AtRate(bandwidth, after) + stall.duration)
        /\ ~(stall.on /\ s.stalled) => s.clock = AtRate(bandwidth, s.sent) /\ (stall.on => s.sent <= after)
    BY DEF Kept
  <1>3. /\ s.left \in Nat /\ s.remaining \in Int /\ s.sent \in Nat /\ s.stalled \in BOOLEAN
        /\ s.clock \in Nat
    BY <1>2 DEF States
  <1>4. total \in Nat /\ total <= body.length /\ (Cuts(truncate) /\ total > 0 => total < body.length)
    BY Share
  <1>5. ~Cuts(truncate) => total = body.length
    BY DEF Delivered
  <1> HIDE DEF total, after
  <1>6. Cuts(truncate) => 0 <= s.remaining /\ (s.remaining > 0 => s.remaining < s.left)
    BY <1>1, <1>2, <1>3, <1>4
  <1>7. /\ r \in Readings
        /\ r.state.left = s.left - r.read
        /\ r.state.remaining = IF Cuts(truncate) THEN s.remaining - r.read ELSE s.remaining
        /\ r.state.stallSent = s.stallSent + r.read
        /\ r.state.stalled = (s.stalled \/ Due(stall, s))
        /\ r.state.sent = s.sent + r.read
        /\ r.state.clock = IF bandwidth.on THEN Larger(Waited(stall, s), s.sent + r.read)
                                           ELSE Waited(stall, s)
        /\ r.read <= s.left
        /\ Cuts(truncate) => r.read <= s.remaining
        /\ ~r.state.stalled => s.stallSent + r.read <= after
        /\ r.err = "none" => r.read > 0
        /\ r.err = "EOF" => ~Cuts(truncate) /\ r.read = s.left
        /\ r.err = "truncated" => Cuts(truncate) /\ r.read = 0 /\ s.remaining = 0
    BY <1>2, <1>6, ThrottledRead DEF after
  <1> DEFINE t == r.state
             read == r.read
  <1>8. read \in Nat /\ t \in States /\ r.err \in {"none", "EOF", "truncated"}
    BY <1>7 DEF Readings
  <1>9. t.left + t.sent = body.length /\ t.stallSent = t.sent /\ t.sent = s.sent + read
    BY <1>2, <1>3, <1>7, <1>8
  <1>10. Cuts(truncate) => 0 <= t.remaining /\ t.remaining + t.sent = total
    BY <1>2, <1>3, <1>4, <1>7, <1>8
  <1>11. Due(stall, s) <=> ~s.stalled /\ s.sent >= after
    BY <1>2 DEF Due, after
  <1>12. Waited(stall, s) = IF ~s.stalled /\ s.sent >= after THEN s.clock + stall.duration ELSE s.clock
    BY <1>11 DEF Waited
  <1>13. t.stalled <=> s.stalled \/ s.sent >= after
    BY <1>7, <1>11
  <1> DEFINE pause == AtRate(bandwidth, after) + stall.duration
  <1>14. t.clock = IF bandwidth.on THEN Larger(Waited(stall, s), t.sent) ELSE Waited(stall, s)
    BY <1>7
  <1>15. stall.on \/ t.stalled
    BY <1>2, <1>13
  <1> HIDE DEF t, read, pause
  <1>16. ~(stall.on /\ t.stalled) =>
             /\ t.clock = AtRate(bandwidth, t.sent)
             /\ stall.on => t.sent <= after
    <2>1. SUFFICES ASSUME ~(stall.on /\ t.stalled)
                   PROVE  /\ t.clock = AtRate(bandwidth, t.sent)
                          /\ stall.on => t.sent <= after
      OBVIOUS
    <2>2. stall.on => ~s.stalled /\ s.sent < after
      BY <1>1, <1>3, <1>13, <2>1
    <2>3. Waited(stall, s) = AtRate(bandwidth, s.sent)
      <3>1. ~(stall.on /\ s.stalled)
        BY <2>2
      <3>2. s.clock = AtRate(bandwidth, s.sent)
        BY <1>2, <3>1
      <3>3. s.stalled \/ ~(s.sent >= after)
        BY <1>1, <1>2, <1>3, <2>2
      <3>4. QED BY <1>12, <3>2, <3>3
    <2>4. t.clock = AtRate(bandwidth, t.sent)
      BY <1>1, <1>3, <1>8, <1>9, <1>14, <2>3 DEF AtRate, Larger
    <2>5. stall.on => t.sent <= after
      BY <1>2, <1>7, <1>9, <2>1 DEF t, read
    <2>6. QED BY <2>4, <2>5
  <1>17. stall.on /\ t.stalled =>
             /\ after <= t.sent
             /\ t.clock = Larger(AtRate(bandwidth, t.sent), pause)
    <2>1. SUFFICES ASSUME stall.on, t.stalled
                   PROVE  /\ after <= t.sent
                          /\ t.clock = Larger(AtRate(bandwidth, t.sent), pause)
      OBVIOUS
    <2>2. after <= s.sent
      BY <1>2, <1>3, <1>13, <2>1
    <2>3. after <= t.sent
      BY <1>1, <1>3, <1>8, <1>9, <2>2
    <2>4. pause \in Nat /\ (~bandwidth.on => pause = stall.duration)
      BY <1>1 DEF pause, AtRate
    <2>5. Waited(stall, s) = Larger(AtRate(bandwidth, s.sent), pause)
      <3>1. CASE s.stalled
        BY <1>2, <1>12, <2>1, <3>1 DEF pause
      <3>2. CASE ~s.stalled
        <4>1. s.sent = after /\ s.clock = AtRate(bandwidth, after)
          BY <1>1, <1>2, <1>3, <2>1, <2>2, <3>2
        <4>2. Waited(stall, s) = pause
          BY <1>12, <2>2, <3>2, <4>1 DEF pause
        <4>3. AtRate(bandwidth, s.sent) <= pause
          BY <1>1, <4>1 DEF pause, AtRate
        <4>4. AtRate(bandwidth, s.sent) \in Nat
          BY <1>3 DEF AtRate
        <4>5. QED BY <2>4, <4>2, <4>3, <4>4 DEF Larger
      <3>3. QED BY <3>1, <3>2
    <2>6. t.clock = Larger(AtRate(bandwidth, t.sent), pause)
      BY <1>1, <1>3, <1>8, <1>9, <1>14, <2>4, <2>5 DEF AtRate, Larger
    <2>7. QED BY <2>3, <2>6
  <1>18. Kept(body, truncate, stall, bandwidth, t)
    <2>1. Cuts(truncate) => 0 <= t.remaining /\ t.remaining + t.sent = Delivered(body, truncate)
      BY <1>10 DEF total
    <2>2. stall.on /\ t.stalled =>
             /\ stall.afterBytes <= t.sent
             /\ t.clock = Larger(AtRate(bandwidth, t.sent),
                                 AtRate(bandwidth, stall.afterBytes) + stall.duration)
      BY <1>17 DEF pause, after
    <2>3. ~(stall.on /\ t.stalled) =>
             t.clock = AtRate(bandwidth, t.sent) /\ (stall.on => t.sent <= stall.afterBytes)
      BY <1>16 DEF after
    <2>4. QED BY <1>8, <1>9, <1>15, <2>1, <2>2, <2>3 DEF Kept
  <1>19. s.sent <= t.sent /\ (r.err = "none" => s.sent < t.sent)
    BY <1>3, <1>7, <1>8, <1>9 DEF read
  <1>20. r.err # "none" => /\ r.err = IF Cuts(truncate) THEN "truncated" ELSE "EOF"
                           /\ t.sent = total
    <2>1. CASE r.err = "EOF"
      <3>1. ~Cuts(truncate) /\ read = s.left
        BY <1>7, <2>1 DEF read
      <3>2. t.sent = total
        BY <1>1, <1>2, <1>3, <1>5, <1>9, <3>1
      <3>3. QED BY <2>1, <3>1, <3>2
    <2>2. CASE r.err = "truncated"
      <3>1. Cuts(truncate) /\ read = 0 /\ s.remaining = 0
        BY <1>7, <2>2 DEF read
      <3>2. t.sent = total
        BY <1>2, <1>3, <1>4, <1>9, <3>1
      <3>3. QED BY <2>2, <3>1, <3>2
    <2>3. QED BY <1>8, <2>1, <2>2
  <1>21. stall.on /\ s.sent < after /\ after <= t.sent =>
             t.sent = after /\ t.clock = AtRate(bandwidth, after)
    <2>1. SUFFICES ASSUME stall.on, s.sent < after, after <= t.sent
                   PROVE  t.sent = after /\ t.clock = AtRate(bandwidth, after)
      OBVIOUS
    <2>2. ~t.stalled
      BY <1>1, <1>2, <1>3, <1>13, <2>1
    <2>3. t.sent = after
      BY <1>1, <1>3, <1>8, <1>9, <1>16, <2>1, <2>2
    <2>4. QED BY <1>16, <2>1, <2>2, <2>3
  <1>22. QED BY <1>7, <1>18, <1>19, <1>20, <1>21 DEF t, total, after

\* What holds of 0 and, with each number below k, of the next holds up to k.
LEMMA Reached ==
    ASSUME NEW k \in Nat, NEW P, 0 \in P, \A n \in 0 .. k : n < k /\ n \in P => n + 1 \in P
    PROVE  \A n \in 0 .. k : n \in P
  <1> DEFINE Missed == {n \in 0 .. k : n \notin P}
  <1>1. SUFFICES ASSUME Missed # {} PROVE FALSE
    OBVIOUS
  <1>2. Missed \in SUBSET Nat
    OBVIOUS
  <1>3. PICK x \in Missed : \A y \in Missed : x <= y
    <2> HIDE DEF Missed
    <2>1. QED BY <1>1, <1>2, Least
  <1>4. x \in 0 .. k /\ x \notin P /\ x # 0
    BY <1>3
  <1>5. x - 1 \in 0 .. k /\ x - 1 < k /\ (x - 1) + 1 = x
    BY <1>4
  <1>6. x - 1 \in P
    BY <1>3, <1>4, <1>5
  <1>7. QED BY <1>4, <1>5, <1>6

\* The log after one more Read, unless the last one failed or ended.
Longer(body, truncate, stall, bandwidth, size, before) ==
    LET last == before[Len(before)]
    IN  IF last.err # "none" THEN before
        ELSE Append(before, throttledRead(body, truncate, stall, bandwidth, last.state, size))

FirstLog(body, truncate, stall) == <<Got(Wrap(body, truncate, stall), 0, "none")>>

IsLog(body, truncate, stall, bandwidth, size, k, log) ==
    log = [n \in 0 .. k |->
              IF n = 0 THEN FirstLog(body, truncate, stall)
              ELSE Longer(body, truncate, stall, bandwidth, size, log[n - 1])]

\* A log of n Reads: each left the readers as they should be; while none failed
\* or ended, it has n bytes or more; and it has the moment at which a pause begins.
LogKept(body, truncate, stall, bandwidth, n, log) ==
    LET last == log[Len(log)]
    IN  /\ log \in Seq(Readings) /\ Len(log) > 0
        /\ \A i \in 1 .. Len(log) : Kept(body, truncate, stall, bandwidth, log[i].state)
        /\ last.err = "none" => n <= last.state.sent
        /\ last.err # "none" => /\ last.err = IF Cuts(truncate) THEN "truncated" ELSE "EOF"
                                /\ last.state.sent = Delivered(body, truncate)
        /\ stall.on /\ 0 < stall.afterBytes /\ stall.afterBytes <= last.state.sent =>
               \E i \in 1 .. Len(log) : /\ log[i].state.sent = stall.afterBytes
                                        /\ log[i].state.clock = AtRate(bandwidth, stall.afterBytes)

\* The copy of a body has a log of any number of Reads.
LEMMA LogsExist ==
    ASSUME NEW body, NEW truncate, NEW stall, NEW bandwidth, NEW size, NEW k \in Nat
    PROVE  \E log : IsLog(body, truncate, stall, bandwidth, size, k, log)
  <1> DEFINE First == FirstLog(body, truncate, stall)
             After(before) == Longer(body, truncate, stall, bandwidth, size, before)
             Is(n, log) == log = [m \in 0 .. n |-> IF m = 0 THEN First ELSE After(log[m - 1])]
             P == {n \in Nat : \E log : Is(n, log)}
  <1>1. 0 \in P
    <2> DEFINE log == [m \in 0 .. 0 |-> First]
    <2>1. Is(0, log)
      <3>1. \A m \in 0 .. 0 : m = 0
        OBVIOUS
      <3> HIDE DEF First, After
      <3>2. QED BY <3>1
    <2> HIDE DEF Is, log
    <2>2. QED BY <2>1
  <1>2. ASSUME NEW n \in 0 .. k, n < k, n \in P PROVE n + 1 \in P
    <2>1. PICK log : Is(n, log)
      BY <1>2
    <2> DEFINE more == [m \in 0 .. n + 1 |-> IF m = n + 1 THEN After(log[n]) ELSE log[m]]
    <2> HIDE DEF First, After
    <2>2. ASSUME NEW m \in 0 .. n + 1
          PROVE  more[m] = IF m = 0 THEN First ELSE After(more[m - 1])
      <3>1. CASE m = 0
        BY <2>1, <3>1
      <3>2. CASE m = n + 1
        BY <3>2
      <3>3. CASE m # 0 /\ m # n + 1
        <4>1. m \in 0 .. n /\ m - 1 \in 0 .. n /\ m - 1 # n + 1 /\ m - 1 \in 0 .. n + 1
          BY <3>3
        <4>2. log[m] = After(log[m - 1])
          BY <2>1, <3>3, <4>1
        <4>3. more[m] = log[m] /\ more[m - 1] = log[m - 1]
          BY <3>3, <4>1
        <4>4. QED BY <3>3, <4>2, <4>3
      <3>4. QED BY <3>1, <3>2, <3>3
    <2>3. more = [m \in 0 .. n + 1 |-> more[m]]
      OBVIOUS
    <2> HIDE DEF more
    <2>4. Is(n + 1, more)
      BY <2>2, <2>3
    <2> HIDE DEF Is
    <2>5. n + 1 \in Nat
      OBVIOUS
    <2>6. QED BY <2>4, <2>5
  <1>3. k \in 0 .. k
    OBVIOUS
  <1>4. k \in P
    <2> HIDE DEF P
    <2>1. QED BY <1>1, <1>2, <1>3, Reached
  <1>5. \A log : Is(k, log) => IsLog(body, truncate, stall, bandwidth, size, k, log)
    BY DEF IsLog
  <1> HIDE DEF Is
  <1>6. QED BY <1>4, <1>5

\* The log before the first Read is as it should be,
LEMMA FirstIsKept ==
    ASSUME NEW body \in Bodies, NEW truncate \in Truncations, NEW stall \in Stalls,
           NEW bandwidth \in Bandwidths
    PROVE  LogKept(body, truncate, stall, bandwidth, 0, FirstLog(body, truncate, stall))
  <1> DEFINE s == Wrap(body, truncate, stall)
             log == FirstLog(body, truncate, stall)
  <1>1. Kept(body, truncate, stall, bandwidth, s) /\ s.sent = 0
    BY WrapIsKept DEF Wrap
  <1>2. s \in States
    BY <1>1 DEF Kept
  <1> DEFINE entry == Got(s, 0, "none")
  <1> HIDE DEF s
  <1>3. entry \in Readings /\ entry.state = s /\ entry.err = "none"
    BY <1>2 DEF Got, Readings
  <1>4. log = <<entry>>
    BY DEF FirstLog, s
  <1> HIDE DEF entry, log
  <1>5. log \in Seq(Readings) /\ Len(log) = 1 /\ log[1] = entry
    BY <1>3, <1>4
  <1>6. \A i \in 1 .. Len(log) : log[i] = entry
    BY <1>5
  <1>7. log[Len(log)] = entry
    BY <1>5
  <1>8. ~(0 < stall.afterBytes /\ stall.afterBytes <= 0)
    BY DEF Stalls
  <1>9. LogKept(body, truncate, stall, bandwidth, 0, log)
    BY <1>1, <1>3, <1>5, <1>6, <1>7, <1>8 DEF LogKept
  <1>10. QED BY <1>9 DEF log

\* and stays so when a Read is added;
LEMMA LongerIsKept ==
    ASSUME NEW body \in Bodies, NEW truncate \in Truncations, NEW stall \in Stalls,
           NEW bandwidth \in Bandwidths, NEW size \in Nat \ {0}, NEW n \in Nat, NEW log,
           LogKept(body, truncate, stall, bandwidth, n, log)
    PROVE  LogKept(body, truncate, stall, bandwidth, n + 1,
                   Longer(body, truncate, stall, bandwidth, size, log))
  <1> DEFINE len == Len(log)
             last == log[len]
             after == stall.afterBytes
             Begins(entry) == /\ entry.state.sent = after
                              /\ entry.state.clock = AtRate(bandwidth, after)
             K(s) == Kept(body, truncate, stall, bandwidth, s)
  <1>1. /\ log \in Seq(Readings) /\ len > 0
        /\ \A i \in 1 .. len : K(log[i].state)
        /\ last.err = "none" => n <= last.state.sent
        /\ last.err # "none" => /\ last.err = IF Cuts(truncate) THEN "truncated" ELSE "EOF"
                                /\ last.state.sent = Delivered(body, truncate)
        /\ stall.on /\ 0 < after /\ after <= last.state.sent => \E i \in 1 .. len : Begins(log[i])
    BY DEF LogKept
  <1>2. len \in Nat /\ len \in 1 .. len
    BY <1>1
  <1>3. CASE last.err # "none"
    <2>1. Longer(body, truncate, stall, bandwidth, size, log) = log
      BY <1>3 DEF Longer
    <2>2. LogKept(body, truncate, stall, bandwidth, n + 1, log)
      BY <1>1, <1>3 DEF LogKept
    <2>3. QED BY <2>1, <2>2
  <1>4. CASE last.err = "none"
    <2> DEFINE s == last.state
               r == throttledRead(body, truncate, stall, bandwidth, s, size)
               more == Append(log, r)
    <2>1. Longer(body, truncate, stall, bandwidth, size, log) = more
      BY <1>4 DEF Longer
    <2>2. K(s)
      BY <1>1, <1>2
    <2>3. s.sent \in Nat /\ after \in Nat
      BY <2>2 DEF Kept, States, Stalls
    <2> HIDE DEF s
    <2>4. /\ r \in Readings
          /\ K(r.state)
          /\ s.sent <= r.state.sent
          /\ r.err = "none" => s.sent < r.state.sent
          /\ r.err # "none" => /\ r.err = IF Cuts(truncate) THEN "truncated" ELSE "EOF"
                               /\ r.state.sent = Delivered(body, truncate)
          /\ stall.on /\ s.sent < after /\ after <= r.state.sent => Begins(r)
      BY <2>2, ReadKeeps
    <2> HIDE DEF r
    <2>5. r.state.sent \in Nat
      BY <2>4 DEF Readings, States
    <2> HIDE DEF K, Begins, last
    <2>6. more \in Seq(Readings) /\ Len(more) = len + 1
      BY <1>1, <2>4
    <2>7. more[len + 1] = r /\ \A i \in 1 .. len : more[i] = log[i]
      BY <1>1, <2>4
    <2> HIDE DEF more, len
    <2>8. \A i \in 1 .. len + 1 : i \in 1 .. len \/ i = len + 1
      BY <1>2
    <2>9. \A i \in 1 .. len + 1 : K(more[i].state)
      BY <1>1, <2>4, <2>7, <2>8
    <2>10. r.err = "none" => n + 1 <= r.state.sent
      BY <1>1, <1>4, <2>3, <2>4, <2>5 DEF s
    <2>11. stall.on /\ 0 < after /\ after <= r.state.sent => \E i \in 1 .. len + 1 : Begins(more[i])
      <3>1. SUFFICES ASSUME stall.on, 0 < after, after <= r.state.sent
                     PROVE  \E i \in 1 .. len + 1 : Begins(more[i])
        OBVIOUS
      <3>2. CASE after <= s.sent
        <4>1. PICK i \in 1 .. len : Begins(log[i])
          BY <1>1, <3>1, <3>2 DEF s
        <4>2. i \in 1 .. len + 1 /\ Begins(more[i])
          BY <1>2, <2>7, <4>1
        <4>3. QED BY <4>2
      <3>3. CASE s.sent < after
        <4>1. Begins(more[len + 1])
          BY <2>4, <2>7, <3>1, <3>3
        <4>2. QED BY <1>2, <4>1
      <3>4. QED BY <2>3, <3>2, <3>3
    <2>12. LogKept(body, truncate, stall, bandwidth, n + 1, more)
      BY <1>2, <2>4, <2>6, <2>7, <2>9, <2>10, <2>11 DEF LogKept, K, Begins
    <2>13. QED BY <2>1, <2>12
  <1>5. QED BY <1>3, <1>4

\* so that every log is,
LEMMA LogsAreKept ==
    ASSUME NEW body \in Bodies, NEW truncate \in Truncations, NEW stall \in Stalls,
           NEW bandwidth \in Bandwidths, NEW size \in Nat \ {0}, NEW k \in Nat, NEW log,
           IsLog(body, truncate, stall, bandwidth, size, k, log)
    PROVE  LogKept(body, truncate, stall, bandwidth, k, log[k])
  <1> DEFINE P == {n \in 0 .. k : LogKept(body, truncate, stall, bandwidth, n, log[n])}
             First == FirstLog(body, truncate, stall)
             After(before) == Longer(body, truncate, stall, bandwidth, size, before)
  <1>1. log = [n \in 0 .. k |-> IF n = 0 THEN First ELSE After(log[n - 1])]
    BY DEF IsLog
  <1> HIDE DEF First, After
  <1>2. log[0] = First /\ \A n \in 0 .. k : n < k => log[n + 1] = After(log[n])
    <2>1. \A n \in 0 .. k : n < k => n + 1 \in 0 .. k /\ n + 1 # 0 /\ (n + 1) - 1 = n
      OBVIOUS
    <2>2. QED BY <1>1, <2>1
  <1>3. 0 \in P
    BY <1>2, FirstIsKept DEF First
  <1>4. ASSUME NEW n \in 0 .. k, n < k, n \in P PROVE n + 1 \in P
    <2>1. LogKept(body, truncate, stall, bandwidth, n, log[n]) /\ n \in Nat /\ n + 1 \in 0 .. k
      BY <1>4
    <2>2. LogKept(body, truncate, stall, bandwidth, n + 1, After(log[n]))
      BY <2>1, LongerIsKept DEF After
    <2>3. QED BY <1>2, <1>4, <2>1, <2>2
  <1> HIDE DEF P
  <1>5. k \in 0 .. k
    OBVIOUS
  <1>6. k \in P
    BY <1>3, <1>4, <1>5, Reached
  <1>7. QED BY <1>6 DEF P

\* and the one of the whole copy.
LEMMA ReadsAreKept ==
    ASSUME NEW body \in Bodies, NEW truncate \in Truncations, NEW stall \in Stalls,
           NEW bandwidth \in Bandwidths, NEW size \in Nat \ {0}
    PROVE  LogKept(body, truncate, stall, bandwidth, 2 * body.length + 2,
                   Reads(body, truncate, stall, bandwidth, size))
  <1> DEFINE most == 2 * body.length + 2
             Is(log) == log = [n \in 0 .. most |->
                            IF n = 0 THEN <<Got(Wrap(body, truncate, stall), 0, "none")>>
                            ELSE LET before == log[n - 1]
                                     last == before[Len(before)]
                                 IN  IF last.err # "none" THEN before
                                     ELSE Append(before,
                                                 throttledRead(body, truncate, stall, bandwidth, last.state, size))]
             log == CHOOSE log : Is(log)
  <1>1. Reads(body, truncate, stall, bandwidth, size) = log[most]
    BY DEF Reads
  <1>2. most \in Nat
    BY DEF Bodies
  <1>3. \A f : Is(f) <=> IsLog(body, truncate, stall, bandwidth, size, most, f)
    BY DEF IsLog, FirstLog, Longer
  <1> HIDE DEF Is, most
  <1>4. \E f : Is(f)
    BY <1>2, <1>3, LogsExist
  <1>5. Is(log)
    BY <1>4, Zenon
  <1>6. LogKept(body, truncate, stall, bandwidth, most, log[most])
    <2> HIDE DEF log
    <2>1. QED BY <1>2, <1>3, <1>5, LogsAreKept
  <1>7. QED BY <1>1, <1>6 DEF most

\* Whatever body, faults and sizes: the log of the copy is as the faults are configured.
LEMMA BodiesArriveInFull ==
    ASSUME NEW body \in Bodies, NEW truncate \in Truncations, NEW stall \in Stalls,
           NEW bandwidth \in Bandwidths, NEW size \in Nat \ {0}
    PROVE  BodiesArriveAsConfigured(body, truncate, stall, bandwidth, size)
  <1> DEFINE log == Reads(body, truncate, stall, bandwidth, size)
             len == Len(log)
             end == log[len]
             total == Delivered(body, truncate)
             after == stall.afterBytes
             rate(bytes) == AtRate(bandwidth, bytes)
             paused == IF stall.on /\ after <= total THEN rate(after) + stall.duration ELSE 0
             InTime(s) == s.clock >= IF stall.on /\ s.sent > after
                                     THEN Larger(rate(s.sent), paused) ELSE rate(s.sent)
             K(s) == Kept(body, truncate, stall, bandwidth, s)
  <1>1. /\ log \in Seq(Readings) /\ len > 0
        /\ \A i \in 1 .. len : K(log[i].state)
        /\ end.err = "none" => 2 * body.length + 2 <= end.state.sent
        /\ end.err # "none" => /\ end.err = IF Cuts(truncate) THEN "truncated" ELSE "EOF"
                               /\ end.state.sent = total
        /\ stall.on /\ 0 < after /\ after <= end.state.sent =>
               \E i \in 1 .. len : /\ log[i].state.sent = after
                                   /\ log[i].state.clock = rate(after)
    BY ReadsAreKept DEF LogKept
  <1> HIDE DEF log
  <1>2. len \in Nat /\ len \in 1 .. len /\ DOMAIN log = 1 .. len
    BY <1>1
  <1>3. /\ body.length \in Nat /\ after \in Nat /\ stall.duration \in Nat /\ stall.on \in BOOLEAN
        /\ bandwidth.on \in BOOLEAN /\ total \in Nat /\ total <= body.length
    BY Share DEF Bodies, Stalls, Bandwidths
  <1>4. ASSUME NEW s, K(s)
        PROVE  /\ s.left \in Nat /\ s.sent \in Nat /\ s.sent <= total /\ s.left + s.sent = body.length
               /\ stall.on /\ s.stalled =>
                      after <= s.sent /\ s.clock = Larger(rate(s.sent), rate(after) + stall.duration)
               /\ ~(stall.on /\ s.stalled) =>
                      s.clock = rate(s.sent) /\ (stall.on => s.sent <= after)
    <2>1. /\ s \in States /\ s.left + s.sent = body.length
          /\ Cuts(truncate) => 0 <= s.remaining /\ s.remaining + s.sent = total
          /\ stall.on /\ s.stalled =>
                 after <= s.sent /\ s.clock = Larger(rate(s.sent), rate(after) + stall.duration)
          /\ ~(stall.on /\ s.stalled) =>
                 s.clock = rate(s.sent) /\ (stall.on => s.sent <= after)
      BY <1>4 DEF Kept
    <2>2. s.left \in Nat /\ s.sent \in Nat /\ s.remaining \in Int
      BY <2>1 DEF States
    <2>3. ~Cuts(truncate) => total = body.length
      BY DEF Delivered
    <2> HIDE DEF total, rate, after
    <2>4. s.sent <= total
      BY <1>3, <2>1, <2>2, <2>3
    <2>5. QED BY <2>1, <2>2, <2>4
  <1>5. K(end.state)
    BY <1>1, <1>2
  <1> HIDE DEF K
  <1>6. end.err # "none"
    <2> HIDE DEF total, end, rate, after
    <2>1. QED BY <1>1, <1>3, <1>4, <1>5
  <1>7. /\ end.state.sent = total
        /\ end.err = IF Cuts(truncate) THEN "truncated" ELSE "EOF"
    BY <1>1, <1>6
  <1>8. ASSUME NEW i \in DOMAIN log PROVE InTime(log[i].state)
    <2> DEFINE s == log[i].state
    <2>1. K(s)
      BY <1>1, <1>2
    <2> HIDE DEF s
    <2>2. /\ s.sent \in Nat /\ s.sent <= total
          /\ stall.on /\ s.stalled =>
                 after <= s.sent /\ s.clock = Larger(rate(s.sent), rate(after) + stall.duration)
          /\ ~(stall.on /\ s.stalled) =>
                 s.clock = rate(s.sent) /\ (stall.on => s.sent <= after)
      BY <1>4, <2>1
    <2>3. InTime(s)
      <3> HIDE DEF total, after
      <3>1. CASE stall.on /\ s.sent > after
        <4>1. paused = rate(after) + stall.duration /\ s.clock = Larger(rate(s.sent), paused)
          BY <1>3, <2>2, <3>1
        <4>2. rate(s.sent) \in Nat /\ paused \in Nat
          BY <1>3, <2>2, <4>1 DEF AtRate
        <4> HIDE DEF rate, paused
        <4>3. QED BY <3>1, <4>1, <4>2 DEF Larger
      <3>2. CASE ~(stall.on /\ s.sent > after)
        <4>1. rate(s.sent) \in Nat /\ rate(after) + stall.duration \in Nat
          BY <1>3, <2>2 DEF AtRate
        <4> HIDE DEF rate
        <4>2. s.clock >= rate(s.sent)
          BY <2>2, <4>1 DEF Larger
        <4>3. QED BY <3>2, <4>2
      <3>3. QED BY <3>1, <3>2
    <2>4. QED BY <2>3 DEF s
  <1>9. stall.on /\ 0 < after /\ after <= total =>
            \E i \in DOMAIN log : /\ log[i].state.sent = after
                                  /\ log[i].state.clock = rate(after)
    BY <1>1, <1>2, <1>7
  <1>10. end.state.clock <= Larger(rate(total), paused)
    <2> DEFINE s == end.state
    <2>1. /\ s.sent = total
          /\ stall.on /\ s.stalled =>
                 after <= s.sent /\ s.clock = Larger(rate(s.sent), rate(after) + stall.duration)
          /\ ~(stall.on /\ s.stalled) => s.clock = rate(s.sent)
      BY <1>4, <1>5, <1>7
    <2> HIDE DEF s, total, after
    <2>2. rate(total) \in Nat /\ rate(after) + stall.duration \in Nat /\ paused \in Nat
      BY <1>3 DEF AtRate
    <2>3. CASE stall.on /\ s.stalled
      <3>1. s.clock = Larger(rate(total), paused)
        BY <2>1, <2>3
      <3> HIDE DEF rate, paused
      <3>2. Larger(rate(total), paused) \in Nat
        BY <2>2 DEF Larger
      <3>3. QED BY <3>1, <3>2 DEF s
    <2>4. CASE ~(stall.on /\ s.stalled)
      <3>1. s.clock = rate(total)
        BY <2>1, <2>4
      <3> HIDE DEF rate, paused
      <3>2. QED BY <2>2, <3>1 DEF Larger, s
    <2>5. QED BY <2>3, <2>4
  <1>11. BodiesArriveAsConfigured(body, truncate, stall, bandwidth, size)
    <2>1. \A bytes : rate(bytes) = IF bandwidth.on THEN bytes ELSE 0
      BY DEF AtRate
    <2>2. QED BY <1>7, <1>8, <1>9, <1>10, <2>1 DEF BodiesArriveAsConfigured, AtRate, log
  <1>12. QED BY <1>11
-------------------------------------------------------------------------------
(* What behaviours take is an input of one of the kinds, and the operators   *)
(* are right for every one of them.                                          *)

Inputs ==
    [for : {"nothing"}]
        \cup [for : {"Match"}, rules : RuleLists]
        \cup [for : {"validateFault"}, list : FaultLists]
        \cup [for : {"ParseFaults"}, directives : DirectiveLists]
        \cup [for : {"Validate"}, file : Files]
        \cup [for : {"Read"}, copy : Copies]

\* An input is one the constants have.
LEMMA InputsAreTaken == Spec => [](input \in Inputs)
  <1>1. Init => input \in Inputs
    BY DEF Init, Inputs
  <1>2. input \in Inputs /\ [Next]_input => (input \in Inputs)'
    <2> SUFFICES ASSUME input \in Inputs, [Next]_input
                 PROVE  input' \in Inputs
      OBVIOUS
    <2>1. CASE MatchRules
      BY <2>1 DEF MatchRules, Inputs
    <2>2. CASE ValidateFaults
      BY <2>2 DEF ValidateFaults, Inputs
    <2>3. CASE ParseDirectives
      BY <2>3 DEF ParseDirectives, Inputs
    <2>4. CASE ValidateFile
      BY <2>4 DEF ValidateFile, Inputs
    <2>5. CASE CopyBody
      BY <2>5 DEF CopyBody, Inputs
    <2>6. CASE UNCHANGED input
      BY <2>6
    <2>7. QED BY <2>1, <2>2, <2>3, <2>4, <2>5, <2>6 DEF Next
  <1>3. QED BY <1>1, <1>2, PTL DEF Spec

(* The first enabled rule that matches, with globs as documented, handles the  *)
(* request, for rules and paths of any length, however many wildcards the      *)
(* patterns have and wherever a path has empty segments (matcher.go, path.go). *)
THEOREM RulesAlwaysMatch == Spec => []RulesMatchAsDocumented
  <1>1. input \in Inputs => RulesMatchAsDocumented
    <2>1. SUFFICES ASSUME input \in Inputs, input.for = "Match", NEW path \in Paths, NEW method \in Methods
                   PROVE  MatchesAsDocumented(input.rules, method, path)
      BY DEF RulesMatchAsDocumented
    <2>2. input.rules \in RuleLists
      BY <2>1 DEF Inputs
    <2>3. /\ input.rules \in Seq([method : Words, pattern : Seq(Seq(Letters)) \ {<<>>}, enabled : BOOLEAN])
          /\ path \in Seq(Seq(Letters)) \ {<<>>}
      BY <2>2, RulesAssumption
    <2>4. QED BY <2>3, GlobsMatchAsDocumented
  <1>2. QED BY <1>1, InputsAreTaken, PTL

(* A rule of a file that passes Validate is one its faults' code can play: a   *)
(* number that is one, a status code that exists, headers that do not          *)
(* contradict each other (validate.go, registry.go:5), whatever the settings;  *)
(* and a name is that of one rule or of one scenario, whose steps all parse    *)
(* (validate.go:35-60), whatever the number of them.                           *)
THEOREM ValidFilesPlay == Spec => []ValidFilesArePlayable
  <1>1. input \in Inputs => ValidFilesArePlayable
    <2>1. ASSUME input \in Inputs, input.for = "validateFault"
          PROVE  ValidRulesArePlayable(input.list.cors, input.list.faults)
      <3>1. input.list \in FaultLists
        BY <2>1 DEF Inputs
      <3> DEFINE faults == input.list.faults
      <3>2. /\ DOMAIN faults \subseteq Faults
            /\ \A fault \in DOMAIN faults : faults[fault] \in SettingsFromFile(fault)
        BY <3>1, FaultsAssumption
      <3>3. QED BY <3>2, ValidRulesPlay
    <2>2. ASSUME input \in Inputs, input.for = "Validate"
          PROVE  ValidNamesIdentify(input.file.rules, input.file.scenarios)
      <3>1. input.file \in Files
        BY <2>2 DEF Inputs
      <3> DEFINE S == [name : Words, match : Words, mode : Words, steps : Seq(Seq(Directives))]
      <3>2. input.file.scenarios \in Seq(S)
        BY <3>1, FilesAssumption
      <3> HIDE DEF S
      <3>3. QED BY <3>2, ValidNamesAreUnique
    <2>3. QED BY <2>1, <2>2 DEF ValidFilesArePlayable
  <1>2. QED BY <1>1, InputsAreTaken, PTL

(* The label that the response, the log and the journal show of X-Chaos       *)
(* directives or of a step (override.go:31, scenario.go:44) is a list of       *)
(* directives that asks for the same faults, in the order of the chain; they   *)
(* can be played, and at most one of them ends the request (directives.go:104, *)
(* registry.go:6), whatever the list.                                          *)
THEOREM LabelsAlwaysMeanTheirDirectives == Spec => []LabelsMeanTheirDirectives
  <1>1. input \in Inputs => LabelsMeanTheirDirectives
    <2>1. ASSUME input \in Inputs, input.for = "ParseFaults"
          PROVE  DirectivesMeanTheirLabel("reflect", input.directives)
      <3>1. input.directives \in DirectiveLists
        BY <2>1 DEF Inputs
      <3>2. input.directives \in Seq(Directives) \ {<<>>}
        BY <3>1, DirectivesAssumption
      <3>3. QED BY <3>2, LabelsParseToTheirDirectives
    <2>2. QED BY <2>1 DEF LabelsMeanTheirDirectives
  <1>2. QED BY <1>1, InputsAreTaken, PTL

(* What truncate lets through arrives and no more, the copy ends in its way,  *)
(* no byte before its time, a pause at its byte, and the end no later than the *)
(* slower of rate and pause (truncate.go, stall.go, bandwidth.go), whatever    *)
(* the sizes of body, chunks and buffers.                                     *)
THEOREM BodiesAlwaysArrive == Spec => []BodiesArrive
  <1>1. input \in Inputs => BodiesArrive
    <2>1. SUFFICES ASSUME input \in Inputs, input.for = "Read", NEW copy, copy = input.copy
                   PROVE  BodiesArriveAsConfigured(copy.body, copy.truncate, copy.stall,
                                                   copy.bandwidth, copy.size)
      BY DEF BodiesArrive
    <2>2. copy \in Copies
      BY <2>1 DEF Inputs
    <2>3. /\ copy.body \in Bodies /\ copy.truncate \in Truncations /\ copy.stall \in Stalls
          /\ copy.bandwidth \in Bandwidths /\ copy.size \in Nat \ {0}
      BY <2>2, CopiesAssumption
    <2>4. QED BY <2>3, BodiesArriveInFull
  <1>2. QED BY <1>1, InputsAreTaken, PTL
================================================================================
