---------------------------- MODULE DeliveryProofs ----------------------------
(***************************************************************************)
(* Proofs about how things get from one to another.                        *)
(*                                                                         *)
(* Within a program: EventStream's events, for any readers and writers and *)
(* for any bound on what is counted of the queue.                          *)
(*                                                                         *)
(* Between programs: the packets of Transmission and the requests for      *)
(* them, for any stations, computers, sizes and settings, for any number   *)
(* of values of a byte and of a digit, for requests of any length, cut     *)
(* anywhere, and for a network that does what it likes.  The text of a     *)
(* request comes first, then what the stations send, up to a blank packet, *)
(* then that nobody sends one.  AudioBuffer is used here with packets that *)
(* may be of any session and of sizes that do not divide their numbers, so *)
(* nothing is taken from AudioBufferProofs.                                *)
(*                                                                         *)
(* Between a program and its user: KeyInput's keys, for any bytes that may *)
(* be sent and any commands, and Connection's screens and answers, for a   *)
(* buffer of any size and any screens.                                     *)
(*                                                                         *)
(* What the operators on sequences give that are defined by recursion is   *)
(* proved first, by induction with sets of numbers.                        *)
(***************************************************************************)
EXTENDS EventStream, Transmission, Connection, TLAPS, NaturalsInduction,
        WellFoundedInduction, SequenceTheorems, FiniteSetTheorems

-------------------------------------------------------------------------------
(* Events                                                                  *)

StreamTypes ==
  /\ t_queue \in 0 .. Many
  /\ access_mutex \in Readers \cup {Nobody}
  /\ writer \in [Writers -> {"idle", "notify"}]
  /\ reader \in [Readers -> {"idle", "lock", "block", "wait", "take"}]

\* A reader that has tested the queue holds the mutex until it waits or has taken an
\* event; so nobody takes the event that it saw.
StreamInv ==
  /\ StreamTypes
  /\ \A r \in Readers :
       /\ reader[r] \in {"block", "take"} => access_mutex = r
       /\ reader[r] = "take" => t_queue > 0

LEMMA StreamInitInv == Init => StreamInv
  BY ManyAssumption DEF Init, StreamInv, StreamTypes

\* LEMMA.  A writer adds events, and wakes only readers that hold no mutex.
LEMMA WriterInv ==
  ASSUME StreamInv, NEW w \in Writers, push(w) \/ notify_one(w)
  PROVE  StreamInv'
<1> USE ManyAssumption DEF StreamInv, StreamTypes
<1>1. CASE push(w)
  BY <1>1 DEF push
<1>2. CASE notify_one(w)
  <2>1. ASSUME NEW r \in Waiting, reader' = [reader EXCEPT ![r] = "lock"]
        PROVE  StreamInv'
    BY <1>2, <2>1 DEF notify_one, Waiting
  <2>2. CASE UNCHANGED reader
    BY <1>2, <2>2 DEF notify_one
  <2>3. QED  BY <1>2, <2>1, <2>2 DEF notify_one
<1>3. QED  BY <1>1, <1>2

\* LEMMA.  Of the readers only the one with the mutex takes, and one event.
LEMMA ReaderInv ==
  ASSUME StreamInv, NEW r \in Readers, ReaderGoesOn(r) \/ spuriousWakeup(r)
  PROVE  StreamInv'
<1> USE ManyAssumption, NobodyAssumption DEF StreamInv, StreamTypes
<1>1. CASE read(r) \/ spuriousWakeup(r)
  BY <1>1 DEF read, spuriousWakeup
<1>2. CASE testEmpty(r)
  <2>1. \A s \in Readers : reader[s] \notin {"block", "take"}
    BY <1>2 DEF testEmpty
  <2>2. QED  BY <1>2, <2>1 DEF testEmpty
<1>3. CASE block(r) \/ take(r)
  <2>1. access_mutex = r
    BY <1>3 DEF block, take
  <2>2. \A s \in Readers : s # r => reader[s] \notin {"block", "take"}
    BY <2>1
  <2>3. CASE block(r)
    BY <2>2, <2>3 DEF block
  <2>4. CASE take(r)
    BY <2>2, <2>4 DEF take
  <2>5. QED  BY <1>3, <2>3, <2>4
<1>4. QED  BY <1>1, <1>2, <1>3 DEF ReaderGoesOn

\* THEOREM.  The invariant of threads, mutex and queue.
THEOREM StreamInvariant == Spec => []StreamInv
<1>1. ASSUME StreamInv, [Next]_vars
      PROVE  StreamInv'
  <2>1. CASE UNCHANGED vars
    BY <1>1, <2>1 DEF vars, StreamInv, StreamTypes
  <2>2. CASE Next
    BY <1>1, <2>2, WriterInv, ReaderInv DEF Next
  <2>3. QED  BY <1>1, <2>1, <2>2
<1>2. QED  BY StreamInitInv, <1>1, PTL DEF Spec

\* THEOREM.  Whatever writers do between the test and the taking of an event, which read
\* does under two locks of the queue, there is an event to take.
THEOREM TakesWhatItSaw == Spec => []NeverTakesFromEmpty
<1>1. StreamInv => NeverTakesFromEmpty
  BY ManyAssumption DEF StreamInv, StreamTypes, NeverTakesFromEmpty
<1>2. QED  BY <1>1, StreamInvariant, PTL

-------------------------------------------------------------------------------
(* Lists put together, and recursions                                      *)

ListsOf(S, x, y, z) == x \in Seq(S) /\ y \in Seq(S) /\ z \in Seq(S)

\* LEMMA.  Of three lists, two may be put together first or last.
LEMMA Regroup ==
  ASSUME NEW S, NEW x, NEW y, NEW z, ListsOf(S, x, y, z)
  PROVE  (x \o y) \o z = x \o (y \o z)
BY ConcatAssociative DEF ListsOf

\* LEMMA.  A set of numbers that is not empty has a smallest one.
LEMMA Smallest ==
  ASSUME NEW T, T \subseteq Nat, T # {}
  PROVE  \E i \in T : \A j \in T : i <= j
<1>1. PICK i \in T : \A j \in T : ~(<<j, i>> \in OpToRel(<, Nat))
  BY NatLessThanWellFounded, WFMin
<1>2. \A j, k \in Nat : j < k => <<j, k>> \in OpToRel(<, Nat)
  BY DEF OpToRel
<1>3. ASSUME NEW j \in T PROVE i <= j
  <2>1. i \in Nat /\ j \in Nat /\ j \in T
    OBVIOUS
  <2>2. ~(j < i)
    BY ONLY <1>1, <1>2, <2>1
  <2>3. QED  BY <2>1, <2>2
<1>4. QED  BY <1>3

\* LEMMA.  Induction over the numbers up to n, for the set of those that are
\* shown to be good.
LEMMA UpToInduction ==
  ASSUME NEW n \in Nat, NEW Good, 0 \in Good,
         \A i \in 1 .. n : i - 1 \in Good => i \in Good
  PROVE  n \in Good
<1> DEFINE Bad == {i \in 0 .. n : i \notin Good}
<1> SUFFICES ASSUME n \notin Good PROVE FALSE
  OBVIOUS
<1>1. Bad # {} /\ Bad \subseteq Nat
  OBVIOUS
<1>2. PICK i \in Bad : \A j \in Bad : i <= j
  <2> HIDE DEF Bad
  <2>1. QED  BY <1>1, Smallest
<1>3. i \in 1 .. n /\ i \notin Good
  OBVIOUS
<1>4. i - 1 \in Good
  BY <1>2, <1>3
<1>5. QED  BY <1>3, <1>4

\* A recursion: on Base a function has the values of base, elsewhere what step makes of its
\* value at the place before, which is nearer by a measure up to n.
Recursion(D, V, n, measure, Base, base, before, step) ==
  /\ n \in Nat /\ measure \in [D -> 0 .. n] /\ Base \subseteq D
  /\ base \in [Base -> V]
  /\ before \in [D \ Base -> D] /\ step \in [D \ Base -> [V -> V]]
  /\ \A x \in D \ Base : measure[before[x]] < measure[x]

Recurs(f, D, Base, base, before, step) ==
  \A x \in D : f[x] = IF x \in Base THEN base[x] ELSE step[x][f[before[x]]]

\* LEMMA.  There is a function that a recursion defines.
LEMMA RecursionDefines ==
  ASSUME NEW D, NEW V, NEW N, NEW measure, NEW Base, NEW base, NEW before, NEW step,
         Recursion(D, V, N, measure, Base, base, before, step)
  PROVE  \E f \in [D -> V] : Recurs(f, D, Base, base, before, step)
<1> USE DEF Recursion
<1> DEFINE Near(n) == {x \in D : measure[x] < n}
           Solves(f, n) ==
             /\ f \in [Near(n) -> V]
             /\ \A x \in Near(n) : f[x] = IF x \in Base THEN base[x] ELSE step[x][f[before[x]]]
           Good == {n \in Nat : \E f : Solves(f, n)}
<1>1. 0 \in Good
  <2>1. Near(0) = {}
    OBVIOUS
  <2>2. Solves([x \in {} |-> 0], 0)
    BY <2>1
  <2>3. QED  BY <2>2
<1>2. ASSUME NEW n \in 1 .. N + 1, n - 1 \in Good
      PROVE  n \in Good
  <2>1. PICK f : Solves(f, n - 1)
    BY <1>2
  <2> DEFINE g == [x \in Near(n) |-> IF x \in Base THEN base[x] ELSE step[x][f[before[x]]]]
  <2>2. \A x \in Near(n) \ Base : before[x] \in Near(n - 1)
    OBVIOUS
  <2>3. g \in [Near(n) -> V]
    BY <2>1, <2>2
  <2>4. \A x \in Near(n - 1) : x \in Near(n) /\ g[x] = f[x]
    BY <2>1
  <2>5. ASSUME NEW x \in Near(n)
        PROVE  g[x] = IF x \in Base THEN base[x] ELSE step[x][g[before[x]]]
    <3>1. g[x] = IF x \in Base THEN base[x] ELSE step[x][f[before[x]]]
      OBVIOUS
    <3> HIDE DEF g
    <3>2. x \notin Base => g[before[x]] = f[before[x]]
      BY <2>2, <2>4
    <3>3. QED  BY <3>1, <3>2
  <2>6. Solves(g, n)
    <3> HIDE DEF g
    <3>1. QED  BY <2>3, <2>5
  <2>7. QED
    <3> HIDE DEF g, Solves
    <3>1. QED  BY <2>6
<1>3. PICK f : Solves(f, N + 1)
  <2> HIDE DEF Good
  <2>1. N + 1 \in Good
    BY <1>1, <1>2, UpToInduction
  <2>2. QED  BY <2>1 DEF Good
<1>4. Near(N + 1) = D
  OBVIOUS
<1>5. QED  BY <1>3, <1>4 DEF Recurs

\* The function a list of lists is put together with.
JoinStep(ss, f, i) == IF i = 1 THEN ss[i] ELSE f[i - 1] \o ss[i]

Joins(ss, f) == f = [i \in 1 .. Len(ss) |-> JoinStep(ss, f, i)]

\* LEMMA.  FlattenSeq puts the lists together from the first on.
LEMMA FlattenIs ==
  ASSUME NEW S, NEW ss \in Seq(Seq(S))
  PROVE  \E f \in [0 .. Len(ss) -> Seq(S)] :
           /\ f[0] = <<>>
           /\ \A i \in 1 .. Len(ss) : f[i] = f[i - 1] \o ss[i]
           /\ FlattenSeq(ss) = f[Len(ss)]
<1> DEFINE N == Len(ss)
           D == 0 .. N
           step == [i \in D \ {0} |-> [before \in Seq(S) |-> before \o ss[i]]]
           base == [i \in {0} |-> <<>>]
           before == [i \in D \ {0} |-> i - 1]
           measure == [i \in D |-> i]
<1>1. N \in Nat /\ \A i \in 1 .. N : ss[i] \in Seq(S)
  OBVIOUS
<1>2. PICK f \in [D -> Seq(S)] : Recurs(f, D, {0}, base, before, step)
  <2>1. step \in [D \ {0} -> [Seq(S) -> Seq(S)]]
    OBVIOUS
  <2>2. /\ measure \in [D -> 0 .. N] /\ base \in [{0} -> Seq(S)]
        /\ before \in [D \ {0} -> D] /\ {0} \subseteq D
    BY <1>1
  <2>3. \A i \in D \ {0} : measure[before[i]] < measure[i]
    BY <1>1
  <2> HIDE DEF step, base, before, measure, D, N
  <2>4. Recursion(D, Seq(S), N, measure, {0}, base, before, step)
    BY <1>1, <2>1, <2>2, <2>3 DEF Recursion
  <2>5. QED  BY <2>4, RecursionDefines
<1>3. f[0] = <<>> /\ \A i \in 1 .. N : f[i] = f[i - 1] \o ss[i]
  <2>1. 0 \in D /\ \A i \in 1 .. N : i \in D /\ i # 0 /\ i - 1 \in D
    BY <1>1
  <2>2. \A i \in 1 .. N : before[i] = i - 1 /\ f[i - 1] \in Seq(S)
    BY <2>1
  <2>3. QED  BY <1>2, <2>1, <2>2 DEF Recurs
<1>4. FlattenSeq(ss) = f[N]
  <2>1. CASE N = 0
    BY <1>3, <2>1 DEF FlattenSeq
  <2>2. CASE N # 0
    <3> DEFINE g == CHOOSE g : Joins(ss, g)
    <3>1. FlattenSeq(ss) = g[N]
      BY <2>2 DEF FlattenSeq, Joins, JoinStep
    <3>2. Joins(ss, [i \in 1 .. N |-> f[i]])
      <4>1. \A i \in 1 .. N : JoinStep(ss, [j \in 1 .. N |-> f[j]], i) = f[i]
        <5>1. \A i \in 1 .. N : i # 1 => i - 1 \in 1 .. N
          BY <1>1
        <5>2. f[1] = ss[1]
          <6>1. 1 \in 1 .. N /\ 1 - 1 = 0
            BY <1>1, <2>2
          <6>2. ss[1] \in Seq(S) /\ f[1] = <<>> \o ss[1]
            BY <1>1, <1>3, <6>1
          <6>3. QED  BY <6>2
        <5>3. QED  BY <1>3, <5>1, <5>2 DEF JoinStep
      <4>2. QED  BY <4>1 DEF Joins
    <3>3. Joins(ss, g)
      BY <3>2
    <3> HIDE DEF g
    <3>4. \A i \in 1 .. N : g[i] = JoinStep(ss, g, i)
      BY <3>3 DEF Joins
    <3> DEFINE Good == {i \in Nat : i = 0 \/ g[i] = f[i]}
    <3>5. ASSUME NEW i \in 1 .. N, i - 1 \in Good
          PROVE  i \in Good
      <4>1. CASE i = 1
        <5>1. g[i] = ss[i] /\ ss[i] \in Seq(S)
          BY <1>1, <3>4, <4>1 DEF JoinStep
        <5>2. f[i] = <<>> \o ss[i]
          <6>1. i - 1 = 0
            BY <4>1
          <6>2. QED  BY <1>3, <6>1
        <5>3. QED  BY <1>1, <5>1, <5>2
      <4>2. CASE i # 1
        <5>1. g[i - 1] = f[i - 1]
          BY <3>5, <4>2
        <5>2. g[i] = g[i - 1] \o ss[i] /\ f[i] = f[i - 1] \o ss[i]
          BY <1>3, <3>4, <4>2 DEF JoinStep
        <5>3. g[i] = f[i] /\ i \in Nat
          BY <1>1, <5>1, <5>2
        <5>4. QED  BY <5>3
      <4>3. QED  BY <4>1, <4>2
    <3>6. 0 \in Good
      OBVIOUS
    <3>7. N \in Good
      <4> HIDE DEF Good
      <4>1. QED  BY <1>1, <3>5, <3>6, UpToInduction
    <3>8. QED  BY <2>2, <3>1, <3>7
  <2>3. QED  BY <2>1, <2>2
<1>5. QED  BY <1>3, <1>4

\* LEMMA.  What is put together from the first list on is what FlattenSeq makes.
LEMMA FlattenUnique ==
  ASSUME NEW S, NEW ss \in Seq(Seq(S)), NEW f, f[0] = <<>>,
         \A i \in 1 .. Len(ss) : f[i] = f[i - 1] \o ss[i]
  PROVE  FlattenSeq(ss) = f[Len(ss)] /\ f[Len(ss)] \in Seq(S)
<1>1. PICK g \in [0 .. Len(ss) -> Seq(S)] :
        /\ g[0] = <<>>
        /\ \A i \in 1 .. Len(ss) : g[i] = g[i - 1] \o ss[i]
        /\ FlattenSeq(ss) = g[Len(ss)]
  BY FlattenIs
<1> DEFINE Good == {i \in Nat : g[i] = f[i]}
<1>2. 0 \in Good
  BY <1>1
<1>3. ASSUME NEW i \in 1 .. Len(ss), i - 1 \in Good
      PROVE  i \in Good
  <2>1. g[i - 1] = f[i - 1] /\ i \in Nat
    BY <1>3
  <2>2. g[i] = g[i - 1] \o ss[i] /\ f[i] = f[i - 1] \o ss[i]
    BY <1>1
  <2>3. g[i] = f[i]
    BY ONLY <2>1, <2>2
  <2>4. QED  BY <2>1, <2>3
<1>4. Len(ss) \in Good
  <2>1. Len(ss) \in Nat
    OBVIOUS
  <2> HIDE DEF Good
  <2>2. QED  BY <1>2, <1>3, <2>1, UpToInduction
<1>5. g[Len(ss)] = f[Len(ss)] /\ Len(ss) \in 0 .. Len(ss)
  BY <1>4
<1>6. QED  BY <1>1, <1>5

\* LEMMA.  Nothing put together is nothing, one list is itself, and the elements stay of
\* their set.
LEMMA FlattenFacts ==
  ASSUME NEW S
  PROVE  /\ FlattenSeq(<<>>) = <<>>
         /\ \A s \in Seq(S) : FlattenSeq(<<s>>) = s
         /\ \A ss \in Seq(Seq(S)) : FlattenSeq(ss) \in Seq(S)
<1>1. FlattenSeq(<<>>) = <<>>
  BY DEF FlattenSeq
<1>2. ASSUME NEW s \in Seq(S)
      PROVE  FlattenSeq(<<s>>) = s
  <2> DEFINE f == [i \in 0 .. 1 |-> IF i = 0 THEN <<>> ELSE s]
  <2>1. \A i \in 1 .. Len(<<s>>) : f[i] = f[i - 1] \o <<s>>[i]
    <3>1. Len(<<s>>) = 1 /\ <<s>>[1] = s /\ f[1] = s /\ f[1 - 1] = <<>> /\ <<>> \o s = s
      OBVIOUS
    <3>2. \A i \in 1 .. 1 : i = 1
      OBVIOUS
    <3> HIDE DEF f
    <3>3. QED  BY <3>1, <3>2
  <2>2. f[0] = <<>> /\ f[1] = s /\ Len(<<s>>) = 1 /\ <<s>> \in Seq(Seq(S))
    OBVIOUS
  <2> HIDE DEF f
  <2>3. FlattenSeq(<<s>>) = f[Len(<<s>>)]
    BY <2>1, <2>2, FlattenUnique
  <2>4. QED  BY <2>2, <2>3
<1>3. ASSUME NEW ss \in Seq(Seq(S))
      PROVE  FlattenSeq(ss) \in Seq(S)
  <2>1. PICK f \in [0 .. Len(ss) -> Seq(S)] : FlattenSeq(ss) = f[Len(ss)]
    BY FlattenIs
  <2>2. Len(ss) \in 0 .. Len(ss)
    OBVIOUS
  <2>3. QED  BY <2>1, <2>2
<1>4. QED  BY <1>1, <1>2, <1>3

\* LEMMA.  Two lists of lists may be put together before or after their own lists are.
LEMMA FlattenConcat ==
  ASSUME NEW S, NEW ss \in Seq(Seq(S)), NEW tt \in Seq(Seq(S))
  PROVE  FlattenSeq(ss \o tt) = FlattenSeq(ss) \o FlattenSeq(tt)
<1>1. PICK f \in [0 .. Len(ss) -> Seq(S)] :
        /\ f[0] = <<>>
        /\ \A i \in 1 .. Len(ss) : f[i] = f[i - 1] \o ss[i]
        /\ FlattenSeq(ss) = f[Len(ss)]
  BY FlattenIs
<1>2. PICK g \in [0 .. Len(tt) -> Seq(S)] :
        /\ g[0] = <<>>
        /\ \A i \in 1 .. Len(tt) : g[i] = g[i - 1] \o tt[i]
        /\ FlattenSeq(tt) = g[Len(tt)]
  BY FlattenIs
<1> DEFINE m == Len(ss)
           n == Len(tt)
           all == ss \o tt
           h == [i \in 0 .. m + n |-> IF i <= m THEN f[i] ELSE f[m] \o g[i - m]]
<1>3. /\ m \in Nat /\ n \in Nat /\ all \in Seq(Seq(S)) /\ Len(all) = m + n
      /\ \A i \in 1 .. m : all[i] = ss[i]
      /\ \A i \in m + 1 .. m + n : all[i] = tt[i - m]
      /\ \A i \in 1 .. n : tt[i] \in Seq(S)
  OBVIOUS
<1>8. /\ f[m] \in Seq(S) /\ f[0] = <<>> /\ g[0] = <<>>
      /\ \A k \in 0 .. n : g[k] \in Seq(S)
  <2>1. m \in 0 .. m
    BY <1>3
  <2>2. QED  BY <1>1, <1>2, <2>1
<1> HIDE DEF m, n, all
<1>4. h[0] = <<>> /\ (n = 0 => h[m + n] = f[m]) /\ (n > 0 => h[m + n] = f[m] \o g[n])
  <2>1. m + n - m = n /\ 0 \in 0 .. m + n /\ m + n \in 0 .. m + n /\ 0 <= m
    BY <1>3
  <2>2. n = 0 => m + n <= m
    BY <1>3
  <2>3. n > 0 => ~(m + n <= m)
    BY <1>3
  <2>4. h[0] = f[0] /\ h[m + n] = IF m + n <= m THEN f[m] ELSE f[m] \o g[n]
    <3>1. \A k \in 0 .. m + n : h[k] = IF k <= m THEN f[k] ELSE f[m] \o g[k - m]
      OBVIOUS
    <3> HIDE DEF h
    <3>2. h[m + n] = IF m + n <= m THEN f[m + n] ELSE f[m] \o g[(m + n) - m]
      BY <2>1, <3>1
    <3>3. (m + n) - m = n /\ (m + n <= m => m + n = m)
      BY <1>3
    <3>4. h[0] = f[0]
      BY <2>1, <3>1
    <3>5. QED  BY <3>2, <3>3, <3>4
  <2> HIDE DEF h
  <2>5. QED  BY <1>8, <2>2, <2>3, <2>4
<1>5. ASSUME NEW i \in 1 .. m + n
      PROVE  h[i] = h[i - 1] \o all[i]
  <2>1. CASE i <= m
    <3>1. i \in 0 .. m + n /\ i - 1 \in 0 .. m + n /\ i - 1 <= m /\ i \in 1 .. m
      BY <1>3, <2>1
    <3>2. h[i] = f[i] /\ h[i - 1] = f[i - 1]
      BY <2>1, <3>1
    <3>3. f[i] = f[i - 1] \o ss[i] /\ all[i] = ss[i]
      BY <1>1, <1>3, <3>1 DEF m
    <3>4. QED  BY ONLY <3>2, <3>3
  <2>2. CASE i > m
    <3>1. /\ i \in 0 .. m + n /\ i - 1 \in 0 .. m + n /\ ~(i <= m) /\ i - m \in 1 .. n
          /\ (i - 1) - m = (i - m) - 1 /\ i \in m + 1 .. m + n /\ (i - m) - 1 \in 0 .. n
          /\ (i - 1 <= m => i - 1 = m /\ (i - m) - 1 = 0)
      <4>1. m \in Nat /\ n \in Nat /\ i \in Nat /\ m < i /\ i <= m + n
        BY <1>3, <2>2
      <4>2. QED  BY ONLY <4>1
    <3>2. h[i] = f[m] \o g[i - m]
      BY <3>1
    <3>3. h[i - 1] = f[m] \o g[(i - m) - 1]
      <4>1. CASE i - 1 <= m
        <5>1. h[i - 1] = f[m] /\ g[(i - m) - 1] = <<>> /\ m \in 0 .. m
          BY <1>8, <1>3, <3>1, <4>1
        <5>2. f[m] \in Seq(S)
          BY <1>8
        <5>3. QED  BY <5>1, <5>2
      <4>2. CASE ~(i - 1 <= m)
        BY <3>1, <4>2
      <4>3. QED  BY <4>1, <4>2
    <3>4. g[i - m] = g[(i - m) - 1] \o tt[i - m] /\ all[i] = tt[i - m]
      BY <1>2, <1>3, <3>1 DEF n
    <3>5. f[m] \in Seq(S) /\ g[(i - m) - 1] \in Seq(S) /\ tt[i - m] \in Seq(S)
      BY <1>8, <1>3, <3>1
    <3>6. PICK a \in Seq(S), b \in Seq(S), c \in Seq(S) :
            a = f[m] /\ b = g[(i - m) - 1] /\ c = tt[i - m]
      BY <3>5
    <3>7. (a \o b) \o c = a \o (b \o c)
      <4>1. ListsOf(S, a, b, c)
        BY DEF ListsOf
      <4>2. QED  BY ONLY <4>1, Regroup
    <3>8. h[i] = a \o (b \o c) /\ h[i - 1] = a \o b /\ all[i] = c
      <4> HIDE DEF h
      <4>1. QED  BY ONLY <3>2, <3>3, <3>4, <3>6
    <3> HIDE DEF h
    <3>9. QED  BY ONLY <3>7, <3>8
  <2> HIDE DEF h
  <2>3. i \in Int /\ m \in Int
    BY <1>3
  <2>4. (i <= m) \/ (i > m)
    BY ONLY <2>3
  <2>5. QED  BY ONLY <2>1, <2>2, <2>4
<1> HIDE DEF h
<1>6. FlattenSeq(all) = h[m + n]
  <2>1. all \in Seq(Seq(S)) /\ Len(all) = m + n
    BY <1>3
  <2>2. h[0] = <<>> /\ \A i \in 1 .. Len(all) : h[i] = h[i - 1] \o all[i]
    BY <1>4, <1>5, <2>1
  <2>3. QED  BY ONLY <2>1, <2>2, FlattenUnique
<1>7. QED
  <2>1. f[m] \in Seq(S) /\ (n = 0 => g[n] = <<>>)
    BY <1>8
  <2>2. CASE n = 0
    <3>1. f[m] \o g[n] = f[m]
      <4>1. f[m] \o <<>> = f[m]
        BY <2>1
      <4>2. QED  BY <2>1, <2>2, <4>1
    <3>2. QED  BY <1>1, <1>2, <1>4, <1>6, <2>2, <3>1 DEF all, m, n
  <2>3. CASE n > 0
    BY <1>1, <1>2, <1>4, <1>6, <2>3 DEF all, m, n
  <2>4. QED  BY <1>3, <2>2, <2>3

\* What of D is good if all that is nearer, by a measure up to n, is.
GoodFromNearer(D, n, measure, Good) ==
  /\ n \in Nat /\ measure \in [D -> 0 .. n]
  /\ \A x \in D : (\A y \in D : measure[y] < measure[x] => y \in Good) => x \in Good

\* LEMMA.  Induction on a measure.
LEMMA MeasureInduction ==
  ASSUME NEW D, NEW n, NEW measure, NEW Good, GoodFromNearer(D, n, measure, Good)
  PROVE  D \subseteq Good
<1> USE DEF GoodFromNearer
<1> DEFINE Bad == {measure[x] : x \in D \ Good}
<1> SUFFICES ASSUME ~(D \subseteq Good) PROVE FALSE
  OBVIOUS
<1>1. Bad # {} /\ Bad \subseteq Nat
  OBVIOUS
<1>2. PICK i \in Bad : \A j \in Bad : i <= j
  <2> HIDE DEF Bad
  <2>1. QED  BY <1>1, Smallest
<1>3. PICK x \in D \ Good : i = measure[x]
  BY <1>2
<1>4. \A y \in D : measure[y] < measure[x] => y \in Good
  <2>1. \A y \in D \ Good : measure[x] <= measure[y]
    BY <1>2, <1>3
  <2>2. QED  BY <2>1
<1>5. QED  BY <1>3, <1>4

\* What the elements of a list are made into, one after the other and put together.
Made(x, made) == [i \in DOMAIN x |-> made[x[i]]]

Each(x, made) == FlattenSeq(Made(x, made))

Makes(S, T, made, x) == made \in [S -> Seq(T)] /\ x \in Seq(S)

\* LEMMA.  Each element is made into a list of the other set.
LEMMA MadeLists ==
  ASSUME NEW S, NEW T, NEW made, NEW x, Makes(S, T, made, x)
  PROVE  \E y \in Seq(Seq(T)) :
           /\ y = Made(x, made) /\ Len(y) = Len(x)
           /\ \A i \in 1 .. Len(x) : y[i] = made[x[i]]
<1> USE DEF Makes
<1> DEFINE y == [i \in 1 .. Len(x) |-> made[x[i]]]
<1>1. Len(x) \in Nat /\ DOMAIN x = 1 .. Len(x) /\ \A i \in 1 .. Len(x) : made[x[i]] \in Seq(T)
  OBVIOUS
<1>2. y \in Seq(Seq(T)) /\ Len(y) = Len(x) /\ \A i \in 1 .. Len(x) : y[i] = made[x[i]]
  BY <1>1
<1>3. y = Made(x, made)
  BY <1>1 DEF Made
<1> HIDE DEF y
<1>4. QED  BY <1>2, <1>3

\* LEMMA.  The lists that elements are made into make a list of the other set.
LEMMA EachTyped ==
  ASSUME NEW S, NEW T, NEW made, NEW x, Makes(S, T, made, x)
  PROVE  Each(x, made) \in Seq(T)
<1>1. Made(x, made) \in Seq(Seq(T))
  BY MadeLists DEF Makes
<1>2. QED  BY <1>1, FlattenFacts DEF Each

\* LEMMA.  What two lists make is what the first makes and then what the second makes.
LEMMA EachConcat ==
  ASSUME NEW S, NEW T, NEW made, NEW x, NEW y, Makes(S, T, made, x), Makes(S, T, made, y)
  PROVE  Each(x \o y, made) = Each(x, made) \o Each(y, made)
<1>1. PICK z \in Seq(S) : z = x \o y
  <2>1. x \in Seq(S) /\ y \in Seq(S)
    BY DEF Makes
  <2>2. x \o y \in Seq(S)
    BY <2>1
  <2>3. QED  BY <2>2
<1>2. PICK a \in Seq(Seq(T)) : a = Made(x, made) /\ Len(a) = Len(x)
                                /\ \A i \in 1 .. Len(x) : a[i] = made[x[i]]
  BY MadeLists
<1>3. PICK b \in Seq(Seq(T)) : b = Made(y, made) /\ Len(b) = Len(y)
                                /\ \A i \in 1 .. Len(y) : b[i] = made[y[i]]
  BY MadeLists
<1>4. PICK c \in Seq(Seq(T)) : c = Made(z, made) /\ Len(c) = Len(z)
                                /\ \A i \in 1 .. Len(z) : c[i] = made[z[i]]
  <2>1. Makes(S, T, made, z)
    BY DEF Makes
  <2>2. QED  BY <2>1, MadeLists
<1>5. /\ a \o b \in Seq(Seq(T)) /\ Len(a \o b) = Len(a) + Len(b)
      /\ \A i \in 1 .. Len(a) + Len(b) :
           (a \o b)[i] = IF i <= Len(a) THEN a[i] ELSE b[i - Len(a)]
  OBVIOUS
<1>6. /\ Len(z) = Len(x) + Len(y) /\ Len(x) \in Nat /\ Len(y) \in Nat
      /\ \A i \in 1 .. Len(x) + Len(y) :
           z[i] = IF i <= Len(x) THEN x[i] ELSE y[i - Len(x)]
  BY <1>1 DEF Makes
<1>7. ASSUME NEW i \in 1 .. Len(c)
      PROVE  c[i] = (a \o b)[i]
  <2>1. i \in 1 .. Len(x) + Len(y) /\ c[i] = made[z[i]] /\ i \in Int
    BY <1>4, <1>6
  <2>2. CASE i <= Len(x)
    <3>1. i \in 1 .. Len(x) /\ a[i] = made[x[i]] /\ z[i] = x[i]
      BY <1>2, <1>6, <2>1, <2>2
    <3>2. (a \o b)[i] = a[i]
      BY <1>2, <1>3, <1>5, <2>1, <2>2
    <3>3. QED  BY ONLY <2>1, <3>1, <3>2
  <2>3. CASE ~(i <= Len(x))
    <3>1. i - Len(x) \in 1 .. Len(y)
      <4>1. Len(x) \in Nat /\ Len(y) \in Nat
        BY <1>6
      <4>2. QED  BY ONLY <2>1, <2>3, <4>1
    <3>2. b[i - Len(x)] = made[y[i - Len(x)]] /\ z[i] = y[i - Len(x)]
      BY <1>3, <1>6, <2>1, <2>3, <3>1
    <3>3. (a \o b)[i] = b[i - Len(x)]
      BY <1>2, <1>3, <1>5, <2>1, <2>3
    <3>4. QED  BY ONLY <2>1, <3>2, <3>3
  <2>4. QED  BY <2>2, <2>3
<1>8. c = a \o b
  <2>1. Len(c) = Len(a \o b)
    BY <1>2, <1>3, <1>4, <1>5, <1>6
  <2>2. QED  BY <1>5, <1>7, <2>1, SeqEqual
<1>9. FlattenSeq(a \o b) = FlattenSeq(a) \o FlattenSeq(b)
  BY FlattenConcat
<1>10. QED  BY <1>1, <1>2, <1>3, <1>4, <1>8, <1>9 DEF Each

\* LEMMA.  No element makes nothing, and one makes its own list.
LEMMA EachFacts ==
  ASSUME NEW S, NEW T, NEW made \in [S -> Seq(T)]
  PROVE  /\ Each(<<>>, made) = <<>>
         /\ \A e \in S : Each(<<e>>, made) = made[e]
<1>1. Each(<<>>, made) = <<>>
  <2>1. Made(<<>>, made) = <<>>
    BY DEF Made
  <2>2. QED  BY <2>1, FlattenFacts DEF Each
<1>2. ASSUME NEW e \in S
      PROVE  Each(<<e>>, made) = made[e]
  <2>1. Made(<<e>>, made) = <<made[e]>>
    BY DEF Made
  <2>2. made[e] \in Seq(T)
    OBVIOUS
  <2>3. QED  BY <2>1, <2>2, FlattenFacts DEF Each
<1>3. QED  BY <1>1, <1>2

\* LEMMA.  Elements that are made into nothing leave nothing.
LEMMA EachNothing ==
  ASSUME NEW S, NEW T, NEW made, NEW x, Makes(S, T, made, x),
         \A i \in 1 .. Len(x) : made[x[i]] = <<>>
  PROVE  Each(x, made) = <<>>
<1>1. PICK y \in Seq(Seq(T)) : y = Made(x, made) /\ Len(y) = Len(x)
                                /\ \A i \in 1 .. Len(x) : y[i] = made[x[i]]
  BY MadeLists
<1> DEFINE f == [i \in 0 .. Len(y) |-> <<>>]
<1>2. f[0] = <<>> /\ f[Len(y)] = <<>> /\ \A i \in 1 .. Len(y) : f[i] = <<>> /\ f[i - 1] = <<>>
  <2>1. 0 \in 0 .. Len(y) /\ Len(y) \in 0 .. Len(y)
        /\ \A i \in 1 .. Len(y) : i \in 0 .. Len(y) /\ i - 1 \in 0 .. Len(y)
    OBVIOUS
  <2>2. \A i \in 0 .. Len(y) : f[i] = <<>>
    OBVIOUS
  <2> HIDE DEF f
  <2>3. QED  BY <2>1, <2>2
<1>3. \A i \in 1 .. Len(y) : y[i] = <<>>
  BY <1>1
<1>4. <<>> \o <<>> = <<>>
  OBVIOUS
<1> HIDE DEF f
<1>5. \A i \in 1 .. Len(y) : f[i] = f[i - 1] \o y[i]
  BY <1>2, <1>3, <1>4
<1>6. FlattenSeq(y) = f[Len(y)]
  BY <1>2, <1>5, FlattenUnique
<1>7. QED  BY <1>1, <1>2, <1>6 DEF Each

\* LEMMA.  Elements that are made into themselves leave the list.
LEMMA EachItself ==
  ASSUME NEW S, NEW T, NEW made, NEW x, Makes(S, T, made, x),
         \A i \in 1 .. Len(x) : x[i] \in T /\ made[x[i]] = <<x[i]>>
  PROVE  Each(x, made) = x
<1>0. x \in Seq(S) /\ x \in Seq(T)
  <2>1. x \in Seq(S) /\ x \in [1 .. Len(x) -> S] /\ Len(x) \in Nat
    BY DEF Makes
  <2>2. x \in [1 .. Len(x) -> T]
    BY <2>1
  <2>3. QED  BY <2>1, <2>2
<1>1. PICK y \in Seq(Seq(T)) : y = Made(x, made) /\ Len(y) = Len(x)
                                /\ \A i \in 1 .. Len(x) : y[i] = made[x[i]]
  BY MadeLists
<1> DEFINE f == [i \in 0 .. Len(y) |-> SubSeq(x, 1, i)]
<1>2. f[0] = <<>> /\ f[Len(y)] = x
      /\ \A i \in 1 .. Len(y) : f[i] = SubSeq(x, 1, i) /\ f[i - 1] = SubSeq(x, 1, i - 1)
  <2>1. 0 \in 0 .. Len(y) /\ Len(y) \in 0 .. Len(y)
        /\ \A i \in 1 .. Len(y) : i \in 0 .. Len(y) /\ i - 1 \in 0 .. Len(y)
    OBVIOUS
  <2>2. \A i \in 0 .. Len(y) : f[i] = SubSeq(x, 1, i)
    OBVIOUS
  <2>3. SubSeq(x, 1, 0) = <<>> /\ SubSeq(x, 1, Len(x)) = x
    BY <1>0
  <2> HIDE DEF f
  <2>4. QED  BY <1>1, <2>1, <2>2, <2>3
<1> HIDE DEF f
<1>3. ASSUME NEW i \in 1 .. Len(y)
      PROVE  f[i] = f[i - 1] \o y[i]
  <2>1. i \in 1 .. Len(x) /\ y[i] = <<x[i]>>
    BY <1>1
  <2>2. SubSeq(x, 1, i) = SubSeq(x, 1, i - 1) \o <<x[i]>>
    <3>1. x \in Seq(T) /\ Len(x) \in Nat
      BY <1>0
    <3>2. 1 \in 1 .. Len(x) /\ i \in 1 .. Len(x)
      BY <2>1, <3>1
    <3>3. QED  BY ONLY <3>1, <3>2, SubSeqRecursiveSecond
  <2>3. QED  BY <1>2, <2>1, <2>2
<1>4. FlattenSeq(y) = f[Len(y)]
  BY <1>2, <1>3, FlattenUnique
<1>5. QED  BY <1>1, <1>2, <1>4 DEF Each

\* Lists of one set, each made into a list of another.
MakesAll(S, T, made, ss, y) ==
  /\ made \in [S -> Seq(T)] /\ ss \in Seq(Seq(S)) /\ y \in Seq(Seq(T))
  /\ Len(y) = Len(ss)
  /\ \A i \in 1 .. Len(ss) : y[i] = Each(ss[i], made)

\* LEMMA.  It is the same whether lists are first put together or first made into others.
LEMMA EachOfFlat ==
  ASSUME NEW S, NEW T, NEW made, NEW ss, NEW y, MakesAll(S, T, made, ss, y)
  PROVE  Each(FlattenSeq(ss), made) = FlattenSeq(y)
<1> USE DEF MakesAll
<1>1. PICK f \in [0 .. Len(ss) -> Seq(S)] :
        /\ f[0] = <<>>
        /\ \A i \in 1 .. Len(ss) : f[i] = f[i - 1] \o ss[i]
        /\ FlattenSeq(ss) = f[Len(ss)]
  BY FlattenIs
<1> DEFINE g == [i \in 0 .. Len(ss) |-> Each(f[i], made)]
<1>2. Len(ss) \in Nat /\ \A i \in 1 .. Len(ss) : ss[i] \in Seq(S) /\ i - 1 \in 0 .. Len(ss)
                                                 /\ i \in 0 .. Len(ss)
      /\ 0 \in 0 .. Len(ss) /\ Len(ss) \in 0 .. Len(ss)
  OBVIOUS
<1>3. \A i \in 0 .. Len(ss) : g[i] = Each(f[i], made)
  OBVIOUS
<1> HIDE DEF g
<1>4. g[0] = <<>> /\ g[Len(y)] = Each(FlattenSeq(ss), made)
  <2>1. Each(<<>>, made) = <<>>
    BY EachFacts
  <2>2. QED  BY <1>1, <1>2, <1>3, <2>1
<1>5. ASSUME NEW i \in 1 .. Len(y)
      PROVE  g[i] = g[i - 1] \o y[i]
  <2>1. i \in 1 .. Len(ss)
    OBVIOUS
  <2>2. /\ ss[i] \in Seq(S) /\ f[i] = f[i - 1] \o ss[i]
        /\ g[i] = Each(f[i], made) /\ g[i - 1] = Each(f[i - 1], made)
        /\ y[i] = Each(ss[i], made)
    BY <1>1, <1>2, <1>3, <2>1
  <2>3. PICK a \in Seq(S) : a = f[i - 1]
    BY <1>2, <2>1
  <2>4. Makes(S, T, made, a) /\ Makes(S, T, made, ss[i])
    BY <2>2 DEF Makes
  <2>5. Each(a \o ss[i], made) = Each(a, made) \o Each(ss[i], made)
    BY <2>4, EachConcat
  <2>6. QED  BY ONLY <2>2, <2>3, <2>5
<1>6. FlattenSeq(y) = g[Len(y)]
  BY <1>4, <1>5, FlattenUnique
<1>7. QED  BY <1>4, <1>6

\* LEMMA.  What is closed under putting two lists together is so under FlattenSeq.
LEMMA FlattenKeeps ==
  ASSUME NEW S, NEW Good \in SUBSET Seq(S), NEW ss \in Seq(Good), <<>> \in Good,
         \A x, y \in Good : x \o y \in Good
  PROVE  FlattenSeq(ss) \in Good
<1>1. ss \in Seq(Seq(S)) /\ Len(ss) \in Nat /\ \A i \in 1 .. Len(ss) : ss[i] \in Good
  OBVIOUS
<1>2. PICK f \in [0 .. Len(ss) -> Seq(S)] :
        /\ f[0] = <<>>
        /\ \A i \in 1 .. Len(ss) : f[i] = f[i - 1] \o ss[i]
        /\ FlattenSeq(ss) = f[Len(ss)]
  BY <1>1, FlattenIs
<1> DEFINE Shown == {i \in Nat : f[i] \in Good}
<1>3. 0 \in Shown
  BY <1>2
<1>4. ASSUME NEW i \in 1 .. Len(ss), i - 1 \in Shown
      PROVE  i \in Shown
  <2>1. f[i - 1] \in Good /\ ss[i] \in Good /\ i \in Nat
    BY <1>1, <1>4
  <2>2. f[i - 1] \o ss[i] \in Good
    BY <2>1
  <2>3. f[i] \in Good
    BY <1>2, <2>2
  <2>4. QED  BY <2>1, <2>3
<1>5. Len(ss) \in Shown
  <2> HIDE DEF Shown
  <2>1. QED  BY <1>1, <1>3, <1>4, UpToInduction
<1>6. QED  BY <1>2, <1>5

-------------------------------------------------------------------------------
(* The text of a request, and what is read of it                           *)

TextDigits == 0 .. Radix - 1

\* Texts of a request.
Texts == Seq(TextDigits \cup {Comma})

\* LEMMA.  A number that is read digit by digit.
LEMMA StoulFacts ==
  /\ stoul(<<>>) = 0
  /\ \A s \in Seq(TextDigits) : stoul(s) \in Nat
  /\ \A s \in Seq(TextDigits), d \in TextDigits : stoul(Append(s, d)) = stoul(s) * Radix + d
  /\ \A s \in Seq(TextDigits) : s # <<>> /\ s[1] # 0 => stoul(s) > 0
<1>1. Radix \in Nat /\ Radix > 1 /\ TextDigits \subseteq Nat
  BY MessagesAssumption DEF TextDigits
<1> DEFINE Values(s, f) ==
             /\ f \in [0 .. Len(s) -> Nat]
             /\ \A n \in 0 .. Len(s) : f[n] = IF n = 0 THEN 0 ELSE f[n - 1] * Radix + s[n]
<1>2. ASSUME NEW s \in Seq(TextDigits)
      PROVE  \E f : Values(s, f) /\ stoul(s) = f[Len(s)]
  <2> DEFINE N == Len(s)
             D == 0 .. N
             step == [n \in D \ {0} |-> [v \in Nat |-> v * Radix + s[n]]]
             base == [n \in {0} |-> 0]
             before == [n \in D \ {0} |-> n - 1]
             measure == [n \in D |-> n]
  <2>1. N \in Nat /\ \A n \in 1 .. N : s[n] \in Nat
    <3>1. N \in Nat /\ \A n \in 1 .. N : s[n] \in TextDigits
      OBVIOUS
    <3>2. QED  BY <1>1, <3>1
  <2>2. PICK f \in [D -> Nat] : Recurs(f, D, {0}, base, before, step)
    <3>1. step \in [D \ {0} -> [Nat -> Nat]]
      BY <1>1, <2>1
    <3>2. /\ measure \in [D -> 0 .. N] /\ base \in [{0} -> Nat]
          /\ before \in [D \ {0} -> D] /\ {0} \subseteq D
      BY <2>1
    <3>3. \A n \in D \ {0} : measure[before[n]] < measure[n]
      BY <2>1
    <3> HIDE DEF step, base, before, measure, D, N
    <3>4. Recursion(D, Nat, N, measure, {0}, base, before, step)
      BY <2>1, <3>1, <3>2, <3>3 DEF Recursion
    <3>5. QED  BY <3>4, RecursionDefines
  <2>3. \A n \in D : f[n] = IF n = 0 THEN 0 ELSE f[n - 1] * Radix + s[n]
    <3>1. \A n \in D \ {0} : before[n] = n - 1 /\ f[n - 1] \in Nat
      <4>1. \A n \in D \ {0} : before[n] = n - 1 /\ n - 1 \in D
        BY <2>1
      <4> HIDE DEF D, before
      <4>2. QED  BY ONLY <4>1, f \in [D -> Nat]
    <3>2. \A n \in D \ {0} : f[n] = step[n][f[n - 1]]
      BY <2>2, <3>1 DEF Recurs
    <3>3. 0 \in D => f[0] = 0
      BY <2>2 DEF Recurs
    <3>4. \A n \in D \ {0} : f[n] = f[n - 1] * Radix + s[n]
      BY <3>1, <3>2
    <3>5. QED  BY <3>3, <3>4
  <2> DEFINE Value(g) == g = [n \in D |-> IF n = 0 THEN 0 ELSE g[n - 1] * Radix + s[n]]
             v == CHOOSE g : Value(g)
  <2>4. Value(f)
    <3> HIDE DEF D
    <3>1. QED  BY <2>2, <2>3
  <2>5. Value(v)
    <3> HIDE DEF Value
    <3>1. QED  BY <2>4
  <2>6. stoul(s) = v[N]
    BY DEF stoul
  <2> HIDE DEF v
  <2>7. \A n \in D : v[n] = IF n = 0 THEN 0 ELSE v[n - 1] * Radix + s[n]
    <3> HIDE DEF D
    <3>1. QED  BY <2>5
  <2> DEFINE Good == {n \in Nat : v[n] = f[n]}
  <2>8. 0 \in Good
    BY <2>1, <2>3, <2>7
  <2>9. ASSUME NEW n \in 1 .. N, n - 1 \in Good
        PROVE  n \in Good
    <3>1. n \in D /\ n # 0 /\ n \in Nat
      BY <2>1
    <3>2. v[n] = v[n - 1] * Radix + s[n] /\ f[n] = f[n - 1] * Radix + s[n]
      BY <2>3, <2>7, <3>1
    <3>3. v[n - 1] = f[n - 1]
      BY <2>9
    <3>4. QED  BY <3>1, <3>2, <3>3
  <2>10. N \in Good
    <3> HIDE DEF Good, D
    <3>1. QED  BY <2>1, <2>8, <2>9, UpToInduction
  <2>11. stoul(s) = f[Len(s)]
    BY <2>6, <2>10
  <2>12. Values(s, f)
    BY <2>2, <2>3
  <2>13. QED  BY <2>11, <2>12
<1>3. stoul(<<>>) = 0
  <2>1. <<>> \in Seq(TextDigits) /\ Len(<<>>) = 0
    OBVIOUS
  <2>2. PICK f : Values(<<>>, f) /\ stoul(<<>>) = f[Len(<<>>)]
    BY <1>2, <2>1
  <2>3. f[0] = 0
    BY <2>1, <2>2
  <2>4. QED  BY <2>1, <2>2, <2>3
<1>4. ASSUME NEW s \in Seq(TextDigits)
      PROVE  stoul(s) \in Nat
  <2>1. PICK f : Values(s, f) /\ stoul(s) = f[Len(s)]
    BY <1>2
  <2>2. QED  BY <2>1
<1>5. ASSUME NEW s \in Seq(TextDigits), NEW d \in TextDigits
      PROVE  stoul(Append(s, d)) = stoul(s) * Radix + d
  <2> DEFINE t == Append(s, d)
             N == Len(s)
  <2>1. /\ t \in Seq(TextDigits) /\ N \in Nat /\ Len(t) = N + 1 /\ t[N + 1] = d
        /\ \A n \in 1 .. N : t[n] = s[n]
    OBVIOUS
  <2>2. PICK f : Values(s, f) /\ stoul(s) = f[N]
    BY <1>2
  <2> HIDE DEF t
  <2>3. PICK g : Values(t, g) /\ stoul(t) = g[N + 1]
    BY <1>2, <2>1
  <2> DEFINE Good == {n \in Nat : f[n] = g[n]}
  <2>4. 0 \in Good
    BY <2>1, <2>2, <2>3
  <2>5. ASSUME NEW n \in 1 .. N, n - 1 \in Good
        PROVE  n \in Good
    <3>1. f[n] = f[n - 1] * Radix + s[n]
      BY <2>1, <2>2
    <3>2. g[n] = g[n - 1] * Radix + t[n]
      BY <2>1, <2>3
    <3>3. s[n] = t[n] /\ f[n - 1] = g[n - 1] /\ n \in Nat
      BY <2>1, <2>5
    <3>4. QED  BY <3>1, <3>2, <3>3
  <2>6. N \in Good
    <3> HIDE DEF Good, N
    <3>1. QED  BY <2>1, <2>4, <2>5, UpToInduction
  <2>7. g[N + 1] = g[N] * Radix + t[N + 1]
    BY <2>1, <2>3
  <2>8. QED  BY <2>1, <2>2, <2>3, <2>6, <2>7 DEF t
<1>6. ASSUME NEW s \in Seq(TextDigits), s # <<>>, s[1] # 0
      PROVE  stoul(s) > 0
  <2> DEFINE N == Len(s)
  <2>1. N \in Nat /\ N > 0 /\ \A n \in 1 .. N : s[n] \in Nat
    <3>1. N \in Nat /\ N > 0 /\ \A n \in 1 .. N : s[n] \in TextDigits
      BY <1>6
    <3>2. QED  BY <1>1, <3>1
  <2>2. PICK f : Values(s, f) /\ stoul(s) = f[N]
    BY <1>2
  <2> DEFINE Good == {n \in Nat : n = 0 \/ f[n] > 0}
  <2>3. ASSUME NEW n \in 1 .. N, n - 1 \in Good
        PROVE  n \in Good
    <3>1. f[n] = f[n - 1] * Radix + s[n] /\ f[n - 1] \in Nat /\ s[n] \in Nat /\ n \in Nat
      <4>1. n \in 0 .. N /\ n - 1 \in 0 .. N /\ n # 0 /\ s[n] \in Nat
        BY <2>1
      <4>2. QED  BY <2>2, <4>1
    <3>2. CASE n = 1
      <4>1. f[n - 1] = 0 /\ s[n] # 0
        BY <1>6, <2>1, <2>2, <3>2
      <4>2. f[n] = s[n]
        BY <1>1, <3>1, <4>1
      <4>3. QED  BY <3>1, <4>1, <4>2
    <3>3. CASE n # 1
      <4>1. f[n - 1] > 0
        BY <2>3, <3>3
      <4>2. f[n - 1] * Radix > 0
        BY <1>1, <3>1, <4>1
      <4>3. QED  BY <1>1, <3>1, <4>2
    <3>4. QED  BY <3>2, <3>3
  <2>4. N \in Good
    <3>1. 0 \in Good
      OBVIOUS
    <3> HIDE DEF Good, N
    <3>2. QED  BY <2>1, <2>3, <3>1, UpToInduction
  <2>5. QED  BY <2>1, <2>2, <2>4
<1>7. QED  BY <1>3, <1>4, <1>5, <1>6

\* LEMMA.  A list with something behind it begins as before.
LEMMA LongerFacts ==
  ASSUME NEW S, NEW s \in Seq(S), s # <<>>, NEW d \in S
  PROVE  Append(s, d) \in Seq(S) /\ Append(s, d) # <<>> /\ Append(s, d)[1] = s[1]
<1>1. /\ Append(s, d) \in Seq(S) /\ Len(Append(s, d)) = Len(s) + 1 /\ Len(s) \in Nat
      /\ \A i \in 1 .. Len(s) : Append(s, d)[i] = s[i]
  OBVIOUS
<1>2. 1 \in 1 .. Len(s) /\ Len(Append(s, d)) # 0
  BY <1>1
<1>3. QED  BY <1>1, <1>2

\* LEMMA.  The text of a number is read as that number, and begins with 0 only if it is 0.
LEMMA DigitsFacts ==
  ASSUME NEW n \in Nat
  PROVE  /\ DigitsOf(n) \in Seq(TextDigits) \ {<<>>}
         /\ stoul(DigitsOf(n)) = n
         /\ n # 0 => DigitsOf(n)[1] # 0
<1>1. Radix \in Nat /\ Radix > 1 /\ TextDigits \subseteq Nat
  BY MessagesAssumption DEF TextDigits
<1> DEFINE D == 0 .. n
           S == Seq(TextDigits)
           Base == {m \in D : m < Radix}
           base == [m \in Base |-> <<m>>]
           before == [m \in D \ Base |-> m \div Radix]
           step == [m \in D \ Base |-> [s \in S |-> Append(s, m % Radix)]]
           measure == [m \in D |-> m]
<1>2. \A m \in D \ Base : /\ m \div Radix \in D /\ m \div Radix < m /\ m \div Radix > 0
                          /\ m % Radix \in TextDigits
                          /\ m = (m \div Radix) * Radix + (m % Radix)
  <2> SUFFICES ASSUME NEW m \in D \ Base
               PROVE  /\ m \div Radix \in D /\ m \div Radix < m /\ m \div Radix > 0
                      /\ m % Radix \in TextDigits
                      /\ m = (m \div Radix) * Radix + (m % Radix)
    BY Zenon
  <2>0. m \in Nat /\ m <= n /\ m >= Radix
    BY <1>1
  <2> DEFINE q == m \div Radix
             r == m % Radix
  <2>1. q \in Nat /\ r \in 0 .. Radix - 1 /\ m = q * Radix + r
    BY <1>1, <2>0
  <2> HIDE DEF q, r
  <2>2. q > 0
    <3>1. q = 0 => q * Radix = 0
      BY <1>1
    <3>2. QED  BY <1>1, <2>0, <2>1, <3>1
  <2>3. q < m
    <3>1. q * Radix >= q * 2
      BY <1>1, <2>1
    <3>2. q * Radix \in Nat
      BY <1>1, <2>1
    <3>3. QED  BY <2>1, <2>2, <3>1, <3>2
  <2>4. q \in 0 .. n /\ r \in TextDigits
    BY <2>0, <2>1, <2>3 DEF TextDigits
  <2>5. q \in D /\ q < m /\ q > 0 /\ r \in TextDigits /\ m = q * Radix + r
    BY <2>1, <2>2, <2>3, <2>4
  <2>6. QED  BY ONLY <2>5 DEF q, r
<1>3. PICK f \in [D -> S] : Recurs(f, D, Base, base, before, step)
  <2>1. step \in [D \ Base -> [S -> S]]
    BY <1>2
  <2>2. base \in [Base -> S]
    BY <1>1 DEF TextDigits
  <2>3. measure \in [D -> 0 .. n] /\ before \in [D \ Base -> D] /\ Base \subseteq D
    BY <1>2
  <2>4. \A m \in D \ Base : measure[before[m]] < measure[m]
    BY <1>2
  <2> HIDE DEF step, base, before, measure, D, Base, S
  <2>5. Recursion(D, S, n, measure, Base, base, before, step)
    BY <2>1, <2>2, <2>3, <2>4 DEF Recursion
  <2>6. QED  BY <2>5, RecursionDefines
<1>4. \A m \in D : f[m] = IF m < Radix THEN <<m>> ELSE Append(f[m \div Radix], m % Radix)
  <2>1. \A m \in Base : f[m] = <<m>>
    BY <1>3 DEF Recurs
  <2>2. \A m \in D \ Base : f[m] = step[m][f[m \div Radix]] /\ f[m \div Radix] \in S
    BY <1>2, <1>3 DEF Recurs
  <2>3. \A m \in D \ Base : f[m] = Append(f[m \div Radix], m % Radix)
    BY <2>2
  <2>4. QED  BY <2>1, <2>3
<1> DEFINE Value(g) == g = [m \in D |-> IF m < Radix THEN <<m>>
                                        ELSE Append(g[m \div Radix], m % Radix)]
           v == CHOOSE g : Value(g)
<1>5. Value(v)
  <2>1. Value(f)
    <3> HIDE DEF D, S
    <3>1. QED  BY <1>3, <1>4
  <2> HIDE DEF Value
  <2>2. QED  BY <2>1
<1>6. DigitsOf(n) = v[n]
  BY DEF DigitsOf
<1> HIDE DEF v
<1>7. \A m \in D : v[m] = IF m < Radix THEN <<m>> ELSE Append(v[m \div Radix], m % Radix)
  <2> HIDE DEF D
  <2>1. QED  BY <1>5
<1> DEFINE Right(s, m) == s \in S /\ s # <<>> /\ stoul(s) = m /\ (m # 0 => s[1] # 0)
           Good == {m \in D : Right(v[m], m)}
<1>8. ASSUME NEW m \in D, \A k \in D : k < m => k \in Good
      PROVE  m \in Good
  <2>1. CASE m < Radix
    <3>1. v[m] = <<m>> /\ m \in TextDigits
      <4>1. v[m] = <<m>>
        BY <1>7, <2>1
      <4>2. m \in TextDigits
        BY <1>1, <2>1 DEF TextDigits
      <4>3. QED  BY <4>1, <4>2
    <3>2. <<m>> = Append(<<>>, m) /\ <<>> \in S /\ <<m>> \in S /\ <<m>>[1] = m /\ <<m>> # <<>>
      BY <3>1
    <3>3. stoul(<<m>>) = 0 * Radix + m
      BY <3>1, <3>2, StoulFacts
    <3>4. stoul(<<m>>) = m
      BY <1>1, <3>3
    <3>5. QED  BY <3>1, <3>2, <3>4
  <2>2. CASE ~(m < Radix)
    <3> DEFINE q == m \div Radix
               r == m % Radix
    <3>1. q \in D /\ q < m /\ q > 0 /\ r \in TextDigits /\ m = q * Radix + r
      <4>1. m \in D \ Base
        BY <2>2
      <4> HIDE DEF D, Base
      <4>2. QED  BY ONLY <1>2, <4>1
    <3>2. Right(v[q], q) /\ v[m] = Append(v[q], r)
      BY <1>7, <1>8, <2>2, <3>1
    <3> HIDE DEF q, r
    <3>3. stoul(v[m]) = m
      BY <3>1, <3>2, StoulFacts
    <3>4. v[m] \in S /\ v[m] # <<>> /\ v[m][1] = v[q][1]
      <4>2. v[q] \in Seq(TextDigits) \ {<<>>}
        BY <3>2
      <4>3. /\ Append(v[q], r) \in Seq(TextDigits) /\ Append(v[q], r) # <<>>
            /\ Append(v[q], r)[1] = v[q][1]
        BY <3>1, <4>2, LongerFacts
      <4>4. v[m] = Append(v[q], r)
        BY <3>2
      <4>5. QED  BY ONLY <4>3, <4>4
    <3>5. v[q][1] # 0
      BY <3>1, <3>2
    <3>6. QED  BY <3>3, <3>4, <3>5
  <2>3. QED  BY <2>1, <2>2
<1>9. D \subseteq Good
  <2>1. measure \in [D -> 0 .. n] /\ \A m \in D : measure[m] = m
    OBVIOUS
  <2> HIDE DEF D, Good, measure
  <2>2. GoodFromNearer(D, n, measure, Good)
    BY <1>8, <2>1 DEF GoodFromNearer
  <2>3. QED  BY <2>2, MeasureInduction
<1>10. n \in D
  OBVIOUS
<1>11. QED  BY <1>6, <1>9, <1>10

Sorts(s, numbers) ==
  /\ s \in [1 .. Cardinality(numbers) -> numbers]
  /\ \A i, j \in DOMAIN s : i < j => s[i] < s[j]

\* LEMMA.  A finite set of numbers can be put in order, and all of it is there.
LEMMA AscendingFacts ==
  ASSUME NEW M, IsFiniteSet(M), M \subseteq Nat
  PROVE  /\ Ascending(M) \in Seq(M)
         /\ M = {Ascending(M)[i] : i \in 1 .. Len(Ascending(M))}
<1> DEFINE Of(n) == {S \in SUBSET Nat : IsFiniteSet(S) /\ Cardinality(S) = n}
           All(s, S) == \A x \in S : \E i \in 1 .. Cardinality(S) : s[i] = x
           Good == {n \in Nat : \A S \in Of(n) : \E s : Sorts(s, S)}
<1>1. Cardinality(M) \in Nat
  BY FS_CardinalityType
<1>2. 0 \in Good
  <2> SUFFICES ASSUME NEW S \in Of(0)
               PROVE  \E s : Sorts(s, S)
    OBVIOUS
  <2>1. S = {} /\ Cardinality(S) = 0
    BY FS_EmptySet
  <2>2. Sorts([i \in {} |-> 0], S)
    <3>1. 1 .. 0 = {}
      OBVIOUS
    <3>2. QED  BY <2>1, <3>1 DEF Sorts
  <2>3. QED  BY <2>2
<1>3. ASSUME NEW n \in Nat \ {0}, n - 1 \in Good
      PROVE  n \in Good
  <2> SUFFICES ASSUME NEW S \in Of(n)
               PROVE  \E s : Sorts(s, S)
    OBVIOUS
  <2>1. S \subseteq Nat /\ IsFiniteSet(S) /\ Cardinality(S) = n /\ S # {}
    BY FS_EmptySet
  <2>2. PICK x \in S : \A y \in S : x <= y
    BY <2>1, Smallest
  <2> DEFINE R == S \ {x}
  <2>3. R \subseteq Nat /\ IsFiniteSet(R) /\ Cardinality(R) = n - 1
    BY <2>1, FS_RemoveElement
  <2>4. PICK t : Sorts(t, R)
    BY <1>3, <2>3
  <2> DEFINE s == [i \in 1 .. n |-> IF i = 1 THEN x ELSE t[i - 1]]
  <2>5. t \in [1 .. n - 1 -> R] /\ \A i, j \in 1 .. n - 1 : i < j => t[i] < t[j]
    BY <2>3, <2>4 DEF Sorts
  <2>6. s \in [1 .. n -> S]
    <3>1. \A i \in 1 .. n : i # 1 => i - 1 \in 1 .. n - 1
      OBVIOUS
    <3>2. QED  BY <2>5, <3>1
  <2>7. ASSUME NEW i \in 1 .. n, NEW j \in 1 .. n, i < j
        PROVE  s[i] < s[j]
    <3>1. j # 1 /\ j - 1 \in 1 .. n - 1 /\ s[j] = t[j - 1] /\ t[j - 1] \in R
      BY <2>5, <2>7
    <3>2. CASE i = 1
      <4>1. s[i] = x /\ s[j] \in S /\ s[j] # x
        BY <3>1, <3>2
      <4> HIDE DEF s
      <4>2. x <= s[j] /\ x \in Nat /\ s[j] \in Nat
        BY <2>1, <2>2, <4>1
      <4>3. QED  BY ONLY <4>1, <4>2
    <3>3. CASE i # 1
      <4>1. i - 1 \in 1 .. n - 1 /\ s[i] = t[i - 1] /\ i - 1 < j - 1
        BY <2>7, <3>3
      <4> HIDE DEF s
      <4>2. QED  BY <2>5, <3>1, <4>1
    <3>4. QED  BY <3>2, <3>3
  <2>8. Sorts(s, S)
    <3> HIDE DEF s
    <3>1. QED  BY <2>1, <2>6, <2>7 DEF Sorts
  <2>9. QED  BY <2>8
<1>4. PICK s : Sorts(s, M)
  <2>1. Cardinality(M) \in Good
    <3>1. \A n \in 1 .. Cardinality(M) : n - 1 \in Good => n \in Good
      BY <1>1, <1>3
    <3> HIDE DEF Good
    <3>2. QED  BY <1>1, <1>2, <3>1, UpToInduction
  <2>2. QED  BY <2>1
<1>5. Sorts(Ascending(M), M)
  BY <1>4 DEF Sorts, Ascending
<1> DEFINE a == Ascending(M)
           N == Cardinality(M)
<1>6. a \in [1 .. N -> M] /\ \A i, j \in 1 .. N : i < j => a[i] < a[j]
  BY <1>5 DEF Sorts
<1> HIDE DEF a
<1>7. a \in Seq(M) /\ Len(a) = N
  BY <1>1, <1>6
<1>8. \A i, j \in 1 .. N : a[i] = a[j] => i = j
  <2> SUFFICES ASSUME NEW i \in 1 .. N, NEW j \in 1 .. N, a[i] = a[j], i # j
               PROVE  FALSE
    OBVIOUS
  <2>1. i < j \/ j < i
    BY <1>1
  <2>2. a[i] \in Nat /\ a[j] \in Nat
    BY <1>6
  <2>3. QED  BY <1>6, <2>1, <2>2
<1>9. a \in Surjection(1 .. N, M)
  <2>1. a \in Injection(1 .. N, M)
    BY <1>6, <1>8 DEF Injection, IsInjective
  <2>2. IsFiniteSet(1 .. N) /\ Cardinality(1 .. N) = N
    BY <1>1, FS_Interval
  <2>3. IsFiniteSet(M) /\ Cardinality(M) = N
    OBVIOUS
  <2> HIDE DEF N
  <2>4. QED  BY ONLY <2>1, <2>2, <2>3, FS_Injection
<1>10. M = {a[i] : i \in 1 .. N}
  BY <1>6, <1>9 DEF Surjection
<1>11. QED  BY <1>7, <1>10 DEF a

\* Where a text is between two numbers.
Ends(text, i) == i \notin DOMAIN text \/ text[i] = Comma

\* A number is at the places i to j of a text.
IsPiece(text, i, j) ==
  /\ i \in DOMAIN text /\ j \in DOMAIN text /\ i <= j
  /\ Ends(text, i - 1) /\ Ends(text, j + 1) /\ \A k \in i .. j : ~Ends(text, k)

\* LEMMA.  The pieces of a text are at its places.
LEMMA PiecesAre ==
  ASSUME NEW text
  PROVE  /\ \A piece \in Pieces(text) : \E i, j : IsPiece(text, i, j) /\ piece = SubSeq(text, i, j)
         /\ \A i, j : IsPiece(text, i, j) => SubSeq(text, i, j) \in Pieces(text)
<1> DEFINE Q == {q \in (DOMAIN text) \X (DOMAIN text) : IsPiece(text, q[1], q[2])}
<1>1. Pieces(text) = {SubSeq(text, r[1], r[2]) : r \in Q}
  BY DEF Pieces, IsPiece, Ends
<1>2. ASSUME NEW piece \in Pieces(text)
      PROVE  \E i, j : IsPiece(text, i, j) /\ piece = SubSeq(text, i, j)
  <2>1. PICK r \in Q : piece = SubSeq(text, r[1], r[2])
    BY <1>1
  <2>2. QED  BY <2>1
<1>3. ASSUME NEW i, NEW j, IsPiece(text, i, j)
      PROVE  SubSeq(text, i, j) \in Pieces(text)
  <2>1. <<i, j>> \in Q
    BY <1>3 DEF IsPiece
  <2>2. <<i, j>>[1] = i /\ <<i, j>>[2] = j
    OBVIOUS
  <2> HIDE DEF Q
  <2>3. QED  BY <1>1, <2>1, <2>2
<1>4. QED  BY <1>2, <1>3

\* LEMMA.  A number that is put after others, and after a comma, is the one piece more.
LEMMA OneMorePiece ==
  ASSUME NEW a \in Texts, NEW d \in Seq(TextDigits), d # <<>>
  PROVE  Pieces(a \o (<<Comma>> \o d)) = Pieces(a) \cup {d}
<1> DEFINE L == Len(a)
           N == Len(d)
           t == a \o (<<Comma>> \o d)
<1>1. L \in Nat /\ N \in Nat \ {0}
  OBVIOUS
<1>2. /\ t \in Texts /\ Len(t) = L + 1 + N /\ DOMAIN t = 1 .. L + 1 + N /\ DOMAIN a = 1 .. L
      /\ \A i \in 1 .. L : t[i] = a[i]
      /\ t[L + 1] = Comma
      /\ \A i \in L + 2 .. L + 1 + N : t[i] = d[i - (L + 1)]
  <2> DEFINE c == <<Comma>> \o d
  <2>1. /\ c \in Texts /\ Len(c) = N + 1 /\ c[1] = Comma
        /\ \A i \in 2 .. N + 1 : c[i] = d[i - 1]
    BY DEF Texts
  <2> HIDE DEF c
  <2>2. /\ a \o c \in Texts /\ Len(a \o c) = L + (N + 1)
        /\ \A i \in 1 .. L : (a \o c)[i] = a[i]
        /\ \A i \in L + 1 .. L + (N + 1) : (a \o c)[i] = c[i - L]
    <3>1. a \in Texts /\ c \in Texts /\ Len(a) = L /\ Len(c) = N + 1
      BY <2>1
    <3> HIDE DEF L, N
    <3>2. /\ a \o c \in Texts /\ Len(a \o c) = L + (N + 1)
          /\ \A i \in 1 .. L + (N + 1) : (a \o c)[i] = IF i <= L THEN a[i] ELSE c[i - L]
      BY ONLY <3>1, ConcatProperties DEF Texts
    <3>3. /\ \A i \in 1 .. L : i \in 1 .. L + (N + 1) /\ i <= L
          /\ \A i \in L + 1 .. L + (N + 1) : i \in 1 .. L + (N + 1) /\ ~(i <= L)
      BY ONLY <1>1
    <3>4. QED  BY <3>2, <3>3
  <2>3. t = a \o c
    BY DEF c
  <2> HIDE DEF t
  <2>4. \A i \in L + 2 .. L + 1 + N : t[i] = d[i - (L + 1)]
    <3> SUFFICES ASSUME NEW i \in L + 2 .. L + 1 + N
                 PROVE  t[i] = d[i - (L + 1)]
      OBVIOUS
    <3>1. i \in L + 1 .. L + (N + 1) /\ i - L \in 2 .. N + 1 /\ (i - L) - 1 = i - (L + 1)
      BY <1>1
    <3>2. QED  BY <2>1, <2>2, <2>3, <3>1
  <2>5. t[L + 1] = Comma
    <3>1. L + 1 \in L + 1 .. L + (N + 1) /\ (L + 1) - L = 1
      BY <1>1
    <3>2. QED  BY <2>1, <2>2, <2>3, <3>1
  <2>6. DOMAIN t = 1 .. L + 1 + N /\ DOMAIN a = 1 .. L
    BY <2>2, <2>3, <1>1 DEF Texts
  <2>7. QED  BY <1>1, <2>2, <2>3, <2>4, <2>5, <2>6
<1> HIDE DEF t
<1>3. \A i \in L + 2 .. L + 1 + N : t[i] # Comma
  <2> SUFFICES ASSUME NEW i \in L + 2 .. L + 1 + N
               PROVE  t[i] # Comma
    OBVIOUS
  <2>1. i - (L + 1) \in 1 .. N
    BY <1>1
  <2>2. d[i - (L + 1)] \in TextDigits
    BY <2>1
  <2>3. Comma \notin TextDigits
    BY MessagesAssumption DEF Comma, TextDigits
  <2>4. QED  BY <1>2, <2>2, <2>3
<1>4. \A i : Ends(t, i) <=> i \notin 1 .. L + 1 + N \/ i = L + 1 \/ (i \in 1 .. L /\ a[i] = Comma)
  <2>1. \A i \in 1 .. L + 1 + N : i \in 1 .. L \/ i = L + 1 \/ i \in L + 2 .. L + 1 + N
    BY <1>1
  <2>2. 1 .. L \subseteq 1 .. L + 1 + N /\ L + 1 \in 1 .. L + 1 + N /\ L + 1 \notin 1 .. L
    BY <1>1
  <2>3. QED  BY <1>2, <1>3, <2>1, <2>2 DEF Ends
<1>5. \A i : Ends(a, i) <=> i \notin 1 .. L \/ a[i] = Comma
  BY <1>2 DEF Ends
<1>6. ASSUME NEW i, NEW j, IsPiece(t, i, j)
      PROVE  IsPiece(a, i, j) \/ (i = L + 2 /\ j = L + 1 + N)
  <2>1. /\ i \in 1 .. L + 1 + N /\ j \in 1 .. L + 1 + N /\ i <= j
        /\ Ends(t, i - 1) /\ Ends(t, j + 1) /\ \A k \in i .. j : ~Ends(t, k)
    BY <1>2, <1>6 DEF IsPiece
  <2>2. ~(i <= L + 1 /\ L + 1 <= j)
    <3>1. Ends(t, L + 1)
      BY <1>4
    <3>2. QED  BY <1>1, <2>1, <3>1
  <2>3. CASE j <= L
    <3>1. i \in 1 .. L /\ j \in 1 .. L /\ \A k \in i .. j : k \in 1 .. L
      BY <1>1, <2>1, <2>3
    <3>2. i - 1 \in 1 .. L => a[i - 1] = Comma
      <4>1. i - 1 # L + 1 /\ (i - 1 \in 1 .. L => i - 1 \in 1 .. L + 1 + N)
        BY <1>1, <3>1
      <4>2. QED  BY <1>4, <2>1, <4>1
    <3>3. j + 1 \in 1 .. L => a[j + 1] = Comma
      <4>1. j + 1 \in 1 .. L => j + 1 \in 1 .. L + 1 + N /\ j + 1 # L + 1
        BY <1>1, <3>1
      <4>2. QED  BY <1>4, <2>1, <4>1
    <3>4. \A k \in i .. j : a[k] # Comma
      BY <1>4, <2>1, <3>1
    <3>5. QED  BY <1>2, <1>5, <2>1, <3>1, <3>2, <3>3, <3>4 DEF IsPiece
  <2>4. CASE i >= L + 2
    <3>1. i = L + 2
      <4>1. i - 1 \in 1 .. L + 1 + N /\ i - 1 \notin 1 .. L
        BY <1>1, <2>1, <2>4
      <4>2. i - 1 = L + 1
        BY <1>4, <2>1, <4>1
      <4>3. QED  BY <1>1, <2>1, <4>2
    <3>2. j = L + 1 + N
      <4>1. j + 1 \notin 1 .. L /\ j + 1 # L + 1
        BY <1>1, <2>1, <2>4
      <4>2. j + 1 \notin 1 .. L + 1 + N
        BY <1>4, <2>1, <4>1
      <4>3. QED  BY <1>1, <2>1, <4>2
    <3>3. QED  BY <3>1, <3>2
  <2>5. QED  BY <1>1, <2>1, <2>2, <2>3, <2>4
<1>7. ASSUME NEW i, NEW j, IsPiece(a, i, j)
      PROVE  IsPiece(t, i, j) /\ SubSeq(t, i, j) = SubSeq(a, i, j)
  <2>1. /\ i \in 1 .. L /\ j \in 1 .. L /\ i <= j
        /\ Ends(a, i - 1) /\ Ends(a, j + 1) /\ \A k \in i .. j : ~Ends(a, k)
    BY <1>2, <1>7 DEF IsPiece
  <2>2. i \in 1 .. L + 1 + N /\ j \in 1 .. L + 1 + N
    BY <1>1, <2>1
  <2>3. Ends(t, i - 1)
    <3>1. i - 1 \in 1 .. L + 1 + N => i - 1 \in 1 .. L
      BY <1>1, <2>1
    <3>2. QED  BY <1>4, <1>5, <2>1, <3>1
  <2>4. Ends(t, j + 1)
    <3>1. j + 1 \in 1 .. L + 1 + N => j + 1 \in 1 .. L \/ j + 1 = L + 1
      BY <1>1, <2>1
    <3>2. QED  BY <1>4, <1>5, <2>1, <3>1
  <2>5. \A k \in i .. j : ~Ends(t, k)
    <3>1. \A k \in i .. j : k \in 1 .. L /\ k \in 1 .. L + 1 + N /\ k # L + 1
      BY <1>1, <2>1
    <3>2. QED  BY <1>4, <1>5, <2>1, <3>1
  <2>6. SubSeq(t, i, j) = SubSeq(a, i, j)
    <3>1. \A k \in 1 .. j - i + 1 : i + k - 1 \in 1 .. L
      BY <1>1, <2>1
    <3>2. \A k \in 1 .. j - i + 1 : t[i + k - 1] = a[i + k - 1]
      BY <1>2, <3>1
    <3>3. QED  BY <1>2, <2>1, <2>2, <3>2
  <2>7. QED  BY <1>2, <2>1, <2>2, <2>3, <2>4, <2>5, <2>6 DEF IsPiece
<1>8. IsPiece(t, L + 2, L + 1 + N) /\ SubSeq(t, L + 2, L + 1 + N) = d
  <2>1. L + 2 \in 1 .. L + 1 + N /\ L + 1 + N \in 1 .. L + 1 + N /\ L + 2 <= L + 1 + N
    BY <1>1
  <2>2. Ends(t, (L + 2) - 1) /\ Ends(t, (L + 1 + N) + 1)
    <3>1. (L + 2) - 1 = L + 1 /\ (L + 1 + N) + 1 \notin 1 .. L + 1 + N
      BY <1>1
    <3>2. QED  BY <1>4, <3>1
  <2>3. \A k \in L + 2 .. L + 1 + N : ~Ends(t, k)
    <3>1. \A k \in L + 2 .. L + 1 + N : k \in 1 .. L + 1 + N /\ k \notin 1 .. L /\ k # L + 1
      BY <1>1
    <3>2. QED  BY <1>4, <3>1
  <2>4. SubSeq(t, L + 2, L + 1 + N) = d
    <3> DEFINE s == SubSeq(t, L + 2, L + 1 + N)
    <3>1. s \in Seq(TextDigits \cup {Comma}) /\ Len(s) = N /\ \A k \in 1 .. N : s[k] = t[L + 1 + k]
      <4>1. /\ L + 2 \in Int /\ L + 1 + N \in Int /\ (L + 1 + N) - (L + 2) + 1 = N
            /\ L + 2 <= L + 1 + N
            /\ \A k \in 1 .. N : (L + 2) + k - 1 = L + 1 + k
            /\ \A k \in L + 2 .. L + 1 + N : k \in 1 .. L + 1 + N
        BY <1>1
      <4>2. \A k \in L + 2 .. L + 1 + N : t[k] \in TextDigits \cup {Comma}
        BY <1>2, <4>1 DEF Texts
      <4> HIDE DEF L, N
      <4>3. /\ s \in Seq(TextDigits \cup {Comma})
            /\ Len(s) = IF L + 2 <= L + 1 + N THEN (L + 1 + N) - (L + 2) + 1 ELSE 0
            /\ \A k \in 1 .. (L + 1 + N) - (L + 2) + 1 : s[k] = t[(L + 2) + k - 1]
        BY ONLY <4>1, <4>2, SubSeqProperties
      <4> HIDE DEF s
      <4>4. QED  BY <4>1, <4>3
    <3>2. \A k \in 1 .. N : t[L + 1 + k] = d[k]
      <4> SUFFICES ASSUME NEW k \in 1 .. N
                   PROVE  t[L + 1 + k] = d[k]
        OBVIOUS
      <4>1. L + 1 + k \in L + 2 .. L + 1 + N /\ (L + 1 + k) - (L + 1) = k
        BY <1>1
      <4>2. QED  BY <1>2, <4>1
    <3> HIDE DEF s
    <3>3. /\ d \in Seq(TextDigits \cup {Comma}) /\ Len(s) = Len(d)
          /\ \A k \in 1 .. Len(s) : s[k] = d[k]
      BY <3>1, <3>2
    <3>4. s = d
      BY ONLY <3>1, <3>3, SeqEqual
    <3>5. QED  BY <3>4 DEF s
  <2>5. QED  BY <1>2, <2>1, <2>2, <2>3, <2>4 DEF IsPiece
<1>9. ASSUME NEW piece \in Pieces(t)
      PROVE  piece \in Pieces(a) \cup {d}
  <2>1. PICK i, j : IsPiece(t, i, j) /\ piece = SubSeq(t, i, j)
    BY PiecesAre
  <2>2. CASE IsPiece(a, i, j)
    <3>1. SubSeq(a, i, j) \in Pieces(a)
      BY <2>2, PiecesAre
    <3>2. SubSeq(t, i, j) = SubSeq(a, i, j)
      BY <1>7, <2>2
    <3>3. QED  BY <2>1, <3>1, <3>2
  <2>3. CASE i = L + 2 /\ j = L + 1 + N
    BY <1>8, <2>1, <2>3
  <2>4. QED  BY <1>6, <2>1, <2>2, <2>3
<1>10. ASSUME NEW piece \in Pieces(a)
       PROVE  piece \in Pieces(t)
  <2>1. PICK i, j : IsPiece(a, i, j) /\ piece = SubSeq(a, i, j)
    BY PiecesAre
  <2>2. IsPiece(t, i, j) /\ piece = SubSeq(t, i, j)
    BY <1>7, <2>1
  <2>3. SubSeq(t, i, j) \in Pieces(t)
    BY <2>2, PiecesAre
  <2>4. QED  BY <2>2, <2>3
<1>11. d \in Pieces(t)
  <2>1. IsPiece(t, L + 2, L + 1 + N) => SubSeq(t, L + 2, L + 1 + N) \in Pieces(t)
    BY PiecesAre
  <2>2. QED  BY <1>8, <2>1
<1>12. QED  BY <1>9, <1>10, <1>11 DEF t

\* LEMMA.  The comma before a text is no piece, nor part of one.
LEMMA FirstComma ==
  ASSUME NEW t \in Texts, t # <<>>, t[1] = Comma
  PROVE  Tail(t) \in Texts /\ Pieces(Tail(t)) = Pieces(t)
<1> DEFINE s == Tail(t)
           L == Len(s)
<1>1. /\ s \in Texts /\ L \in Nat /\ Len(t) = L + 1 /\ DOMAIN t = 1 .. L + 1 /\ DOMAIN s = 1 .. L
      /\ \A i \in 1 .. L : s[i] = t[i + 1]
  BY DEF Texts
<1> HIDE DEF s, L
<1>2. \A i \in Int : Ends(s, i) <=> i \notin 1 .. L \/ t[i + 1] = Comma
  BY <1>1 DEF Ends
<1>3. \A i \in Int : Ends(t, i) <=> i \notin 1 .. L + 1 \/ t[i] = Comma
  BY <1>1 DEF Ends
<1>4. \A i \in Int : i >= 0 => (Ends(s, i) <=> Ends(t, i + 1))
  <2> SUFFICES ASSUME NEW i \in Int, i >= 0
               PROVE  Ends(s, i) <=> Ends(t, i + 1)
    OBVIOUS
  <2>1. i + 1 \in 1 .. L + 1 <=> i = 0 \/ i \in 1 .. L
    BY <1>1
  <2>2. i = 0 => t[i + 1] = Comma /\ i \notin 1 .. L
    BY <1>1
  <2>3. QED  BY <1>1, <1>2, <1>3, <2>1, <2>2
<1>5. ASSUME NEW i \in Int, NEW j \in Int, i >= 1
      PROVE  IsPiece(s, i, j) <=> IsPiece(t, i + 1, j + 1)
  <2>1. /\ i \in 1 .. L <=> i + 1 \in 1 .. L + 1
        /\ j \in 1 .. L /\ i <= j <=> j + 1 \in 1 .. L + 1 /\ i + 1 <= j + 1
    BY <1>1, <1>5
  <2>2. Ends(s, i - 1) <=> Ends(t, (i + 1) - 1)
    BY <1>4, <1>5
  <2>3. i <= j => (Ends(s, j + 1) <=> Ends(t, (j + 1) + 1))
    BY <1>4, <1>5
  <2>4. (\A k \in i .. j : ~Ends(s, k)) <=> (\A k \in i + 1 .. j + 1 : ~Ends(t, k))
    <3>1. \A k \in i .. j : k + 1 \in i + 1 .. j + 1 /\ (Ends(s, k) <=> Ends(t, k + 1))
      BY <1>4, <1>5
    <3>2. \A k \in i + 1 .. j + 1 : k - 1 \in i .. j /\ (k - 1) + 1 = k
      BY <1>5
    <3>3. QED  BY <3>1, <3>2
  <2>5. i + 1 <= j + 1 <=> i <= j
    OBVIOUS
  <2>6. QED  BY <1>1, <2>1, <2>2, <2>3, <2>4, <2>5 DEF IsPiece
<1>6. ASSUME NEW i \in 1 .. L, NEW j \in 1 .. L, i <= j
      PROVE  SubSeq(s, i, j) = SubSeq(t, i + 1, j + 1)
  <2>1. /\ i \in Int /\ j \in Int /\ i + 1 \in Int /\ j + 1 \in Int
        /\ \A k \in i .. j : k \in 1 .. L /\ k + 1 \in 1 .. L + 1
        /\ \A k \in i + 1 .. j + 1 : k \in 1 .. L + 1
        /\ \A k \in 1 .. j - i + 1 : i + k - 1 \in 1 .. L /\ (i + k - 1) + 1 = (i + 1) + k - 1
        /\ (j + 1) - (i + 1) + 1 = j - i + 1 /\ i + 1 <= j + 1
    BY <1>1, <1>6
  <2>2. \A k \in i .. j : s[k] \in TextDigits \cup {Comma}
    BY <1>1, <2>1 DEF Texts
  <2>3. \A k \in i + 1 .. j + 1 : t[k] \in TextDigits \cup {Comma}
    BY <1>1, <2>1 DEF Texts
  <2> DEFINE u == SubSeq(s, i, j)
             v == SubSeq(t, i + 1, j + 1)
  <2>4. /\ u \in Texts /\ Len(u) = j - i + 1
        /\ \A k \in 1 .. j - i + 1 : u[k] = s[i + k - 1]
    BY <1>6, <2>1, <2>2, SubSeqProperties DEF Texts
  <2>5. /\ v \in Texts /\ Len(v) = j - i + 1
        /\ \A k \in 1 .. j - i + 1 : v[k] = t[(i + 1) + k - 1]
    <3>1. /\ v \in Seq(TextDigits \cup {Comma})
          /\ Len(v) = IF i + 1 <= j + 1 THEN (j + 1) - (i + 1) + 1 ELSE 0
          /\ \A k \in 1 .. (j + 1) - (i + 1) + 1 : v[k] = t[(i + 1) + k - 1]
      BY ONLY <2>1, <2>3, SubSeqProperties
    <3> HIDE DEF v
    <3>2. QED  BY <2>1, <3>1 DEF Texts
  <2> HIDE DEF u, v
  <2>6. \A k \in 1 .. j - i + 1 : u[k] = v[k]
    BY <1>1, <2>1, <2>4, <2>5
  <2>7. u = v
    BY <2>4, <2>5, <2>6, SeqEqual DEF Texts
  <2>8. QED  BY <2>7 DEF u, v
<1>7. ASSUME NEW piece \in Pieces(s)
      PROVE  piece \in Pieces(t)
  <2>1. PICK i, j : IsPiece(s, i, j) /\ piece = SubSeq(s, i, j)
    BY PiecesAre
  <2>2. i \in 1 .. L /\ j \in 1 .. L /\ i <= j
    BY <1>1, <2>1 DEF IsPiece
  <2>3. IsPiece(t, i + 1, j + 1)
    BY <1>5, <2>1, <2>2
  <2>4. SubSeq(t, i + 1, j + 1) \in Pieces(t)
    BY <2>3, PiecesAre
  <2>5. QED  BY <1>6, <2>1, <2>2, <2>4
<1>8. ASSUME NEW piece \in Pieces(t)
      PROVE  piece \in Pieces(s)
  <2>1. PICK i, j : IsPiece(t, i, j) /\ piece = SubSeq(t, i, j)
    BY PiecesAre
  <2>2. i \in 1 .. L + 1 /\ j \in 1 .. L + 1 /\ i <= j /\ ~Ends(t, i)
    BY <1>1, <2>1 DEF IsPiece
  <2>3. i # 1
    BY <1>3, <2>2
  <2>4. PICK h \in 1 .. L, k \in 1 .. L : i = h + 1 /\ j = k + 1 /\ h <= k
    <3>1. /\ i - 1 \in 1 .. L /\ j - 1 \in 1 .. L /\ i = (i - 1) + 1 /\ j = (j - 1) + 1
          /\ i - 1 <= j - 1
      BY <1>1, <2>2, <2>3
    <3>2. QED  BY <3>1
  <2>5. IsPiece(s, h, k)
    BY <1>5, <2>1, <2>4
  <2>6. SubSeq(s, h, k) \in Pieces(s)
    BY <2>5, PiecesAre
  <2>7. QED  BY <1>6, <2>1, <2>4, <2>6
<1>9. QED  BY <1>1, <1>7, <1>8 DEF s

\* LEMMA.  A request has the text of its numbers, and of no other.
LEMMA PiecesOfMessage ==
  ASSUME NEW M, IsFiniteSet(M), M \subseteq Nat, M # {}
  PROVE  rexmitMessage(M) \in Texts /\ Pieces(rexmitMessage(M)) = {DigitsOf(n) : n \in M}
<1> DEFINE A == Ascending(M)
           C == TextDigits \cup {Comma}
           lists == [i \in DOMAIN A |-> <<Comma>> \o DigitsOf(A[i])]
<1>1. A \in Seq(M) /\ M = {A[i] : i \in 1 .. Len(A)}
  BY AscendingFacts
<1> HIDE DEF A
<1>2. \A n \in M : DigitsOf(n) \in Seq(TextDigits) /\ DigitsOf(n) # <<>>
  BY DigitsFacts
<1>3. \A n \in M : /\ <<Comma>> \o DigitsOf(n) \in Seq(C) /\ <<Comma>> \o DigitsOf(n) # <<>>
                   /\ (<<Comma>> \o DigitsOf(n))[1] = Comma
  BY <1>2
<1>4. Len(A) \in Nat /\ Len(A) # 0 /\ DOMAIN A = 1 .. Len(A) /\ \A i \in 1 .. Len(A) : A[i] \in M
  BY <1>1
<1>5. lists \in Seq(Seq(C)) /\ Len(lists) = Len(A)
      /\ \A i \in 1 .. Len(A) : lists[i] = <<Comma>> \o DigitsOf(A[i])
  <2> DEFINE made == [n \in M |-> <<Comma>> \o DigitsOf(n)]
  <2>1. made \in [M -> Seq(C)]
    BY <1>3
  <2>2. \A i \in 1 .. Len(A) : made[A[i]] = <<Comma>> \o DigitsOf(A[i])
    BY <1>4
  <2>3. lists = [i \in DOMAIN A |-> made[A[i]]]
    BY <1>4, <2>2
  <2> HIDE DEF made, lists, C
  <2>4. Makes(M, C, made, A)
    BY <1>1, <2>1 DEF Makes
  <2>5. PICK y \in Seq(Seq(C)) :
          /\ y = Made(A, made) /\ Len(y) = Len(A)
          /\ \A i \in 1 .. Len(A) : y[i] = made[A[i]]
    BY <2>4, MadeLists
  <2>6. lists = y
    BY <2>3, <2>5 DEF Made
  <2>7. QED  BY <2>2, <2>5, <2>6
<1> HIDE DEF lists, C
<1>6. PICK f \in [0 .. Len(A) -> Seq(C)] :
        /\ f[0] = <<>>
        /\ \A i \in 1 .. Len(A) : f[i] = f[i - 1] \o lists[i]
        /\ FlattenSeq(lists) = f[Len(A)]
  <2>1. lists \in Seq(Seq(C)) /\ Len(lists) = Len(A)
    BY <1>5
  <2>2. \E f \in [0 .. Len(lists) -> Seq(C)] :
           /\ f[0] = <<>>
           /\ \A i \in 1 .. Len(lists) : f[i] = f[i - 1] \o lists[i]
           /\ FlattenSeq(lists) = f[Len(lists)]
    BY ONLY <2>1, FlattenIs
  <2>3. QED  BY <2>1, <2>2
<1> DEFINE Right(i) == /\ i > 0 => f[i] # <<>> /\ f[i][1] = Comma
                       /\ Pieces(f[i]) = {DigitsOf(A[k]) : k \in 1 .. i}
           Good == {i \in Nat : i <= Len(A) /\ Right(i)}
<1>7. 0 \in Good
  <2>1. Pieces(<<>>) = {}
    <3>1. DOMAIN <<>> = {}
      OBVIOUS
    <3>2. \A i, j : ~IsPiece(<<>>, i, j)
      BY <3>1 DEF IsPiece
    <3>3. QED  BY <3>2, PiecesAre
  <2>2. 1 .. 0 = {} /\ 0 <= Len(A)
    BY <1>4
  <2>3. QED  BY <1>6, <2>1, <2>2
<1>8. ASSUME NEW i \in 1 .. Len(A), i - 1 \in Good
      PROVE  i \in Good
  <2> DEFINE a == f[i - 1]
             d == DigitsOf(A[i])
  <2>1. /\ i \in Nat /\ i > 0 /\ i <= Len(A) /\ i - 1 \in 0 .. Len(A)
        /\ a \in Texts /\ d \in Seq(TextDigits) /\ d # <<>> /\ Right(i - 1)
    <3>1. i \in Nat /\ i > 0 /\ i <= Len(A) /\ i - 1 \in 0 .. Len(A)
      BY <1>4
    <3>2. QED  BY <1>2, <1>4, <1>6, <1>8, <3>1 DEF Texts, C
  <2>2. f[i] = a \o (<<Comma>> \o d)
    BY <1>5, <1>6
  <2> HIDE DEF a, d
  <2>3. Pieces(f[i]) = Pieces(a) \cup {d}
    BY <2>1, <2>2, OneMorePiece
  <2>4. 1 .. i = (1 .. i - 1) \cup {i}
    BY <2>1
  <2>5. Pieces(f[i]) = {DigitsOf(A[k]) : k \in 1 .. i}
    BY <2>1, <2>3, <2>4 DEF a, d
  <2>6. f[i] # <<>> /\ f[i][1] = Comma
    <3>1. i - 1 > 0 => a # <<>> /\ a[1] = Comma
      BY <2>1 DEF a
    <3>2. i - 1 = 0 => a = <<>>
      BY <1>6 DEF a
    <3>3. \A x, y \in Seq(C) : y # <<>> /\ y[1] = Comma /\ (x # <<>> => x[1] = Comma) =>
            x \o y # <<>> /\ (x \o y)[1] = Comma
      OBVIOUS
    <3>4. /\ <<Comma>> \o d \in Seq(C) /\ <<Comma>> \o d # <<>>
          /\ (<<Comma>> \o d)[1] = Comma /\ a \in Seq(C)
      BY <2>1 DEF Texts, C
    <3>5. QED  BY <2>1, <2>2, <3>1, <3>2, <3>3, <3>4
  <2>7. QED  BY <2>1, <2>5, <2>6
<1>9. Len(A) \in Good
  <2> HIDE DEF Good
  <2>1. QED  BY <1>4, <1>7, <1>8, UpToInduction
<1> DEFINE t == FlattenSeq(lists)
<1>10. t \in Texts /\ t # <<>> /\ t[1] = Comma /\ Pieces(t) = {DigitsOf(n) : n \in M}
  <2>1. t \in Texts /\ t # <<>> /\ t[1] = Comma
    BY <1>4, <1>6, <1>9 DEF Texts, C
  <2>2. Pieces(t) = {DigitsOf(A[k]) : k \in 1 .. Len(A)}
    BY <1>6, <1>9
  <2>3. QED  BY <1>1, <2>1, <2>2
<1>11. rexmitMessage(M) = Tail(t)
  BY DEF rexmitMessage, lists, A
<1> HIDE DEF t
<1>12. QED  BY <1>10, <1>11, FirstComma

\* LEMMA.  A text that is cut has the pieces of the whole one, but for its last, which is
\* the beginning of one.
LEMMA PiecesOfCut ==
  ASSUME NEW t \in Texts, NEW m \in 0 .. Len(t)
  PROVE  \E last :
           \A piece \in Pieces(SubSeq(t, 1, m)) :
             /\ piece \in Pieces(t) \/ piece = last
             /\ piece # <<>>
             /\ \E whole \in Pieces(t) : whole[1] = piece[1]
<1> DEFINE s == SubSeq(t, 1, m)
           L == Len(t)
<1>1. L \in Nat /\ m \in Nat /\ m <= L /\ DOMAIN t = 1 .. L /\ t \in Seq(TextDigits \cup {Comma})
  BY DEF Texts
<1>2. s \in Texts /\ Len(s) = m /\ DOMAIN s = 1 .. m /\ \A i \in 1 .. m : s[i] = t[i]
  <2>1. \A i \in 1 .. m : t[i] \in TextDigits \cup {Comma} /\ 1 + i - 1 = i
    BY <1>1
  <2>2. /\ s \in Seq(TextDigits \cup {Comma}) /\ Len(s) = IF 1 <= m THEN m - 1 + 1 ELSE 0
        /\ \A i \in 1 .. m - 1 + 1 : s[i] = t[1 + i - 1]
    BY <1>1, <2>1, SubSeqProperties
  <2> HIDE DEF s
  <2>3. m - 1 + 1 = m /\ (~(1 <= m) => m = 0)
    BY <1>1
  <2>4. QED  BY <2>1, <2>2, <2>3 DEF Texts
<1> HIDE DEF s, L
<1>3. \A i \in 1 .. m : Ends(s, i) <=> Ends(t, i)
  BY <1>1, <1>2 DEF Ends
<1>4. \A i \in Int : i \notin 1 .. L => Ends(t, i)
  BY <1>1 DEF Ends
<1>5. ASSUME NEW i, NEW j, IsPiece(s, i, j)
      PROVE  /\ i \in 1 .. m /\ j \in 1 .. m /\ i <= j
             /\ Ends(t, i - 1) /\ \A k \in i .. j : ~Ends(t, k)
  <2>1. /\ i \in 1 .. m /\ j \in 1 .. m /\ i <= j
        /\ Ends(s, i - 1) /\ \A k \in i .. j : ~Ends(s, k)
    BY <1>2, <1>5 DEF IsPiece
  <2>2. \A k \in i .. j : k \in 1 .. m
    BY <1>1, <2>1
  <2>3. Ends(t, i - 1)
    <3>1. i - 1 \in Int /\ (i - 1 \in 1 .. m \/ i - 1 \notin 1 .. L)
      BY <1>1, <2>1
    <3>2. QED  BY <1>3, <1>4, <2>1, <3>1
  <2>4. QED  BY <1>3, <2>1, <2>2, <2>3
<1>6. ASSUME NEW i, NEW j, IsPiece(s, i, j)
      PROVE  /\ SubSeq(s, i, j) = SubSeq(t, i, j) /\ SubSeq(s, i, j) # <<>>
             /\ SubSeq(s, i, j)[1] = t[i]
  <2>1. i \in 1 .. m /\ j \in 1 .. m /\ i <= j
    BY <1>5, <1>6
  <2>2. /\ i \in Int /\ j \in Int /\ \A k \in i .. j : k \in 1 .. m /\ k \in 1 .. L
        /\ \A k \in 1 .. j - i + 1 : i + k - 1 \in 1 .. m
        /\ 1 \in 1 .. j - i + 1 /\ i + 1 - 1 = i /\ j - i + 1 # 0
    BY <1>1, <2>1
  <2>3. /\ \A k \in i .. j : s[k] \in TextDigits \cup {Comma}
        /\ \A k \in i .. j : t[k] \in TextDigits \cup {Comma}
    BY <1>1, <1>2, <2>2
  <2> DEFINE u == SubSeq(s, i, j)
             v == SubSeq(t, i, j)
  <2>4. u \in Texts /\ Len(u) = j - i + 1 /\ \A k \in 1 .. j - i + 1 : u[k] = s[i + k - 1]
    BY <2>1, <2>2, <2>3, SubSeqProperties DEF Texts
  <2>5. v \in Texts /\ Len(v) = j - i + 1 /\ \A k \in 1 .. j - i + 1 : v[k] = t[i + k - 1]
    BY <2>1, <2>2, <2>3, SubSeqProperties DEF Texts
  <2> HIDE DEF u, v
  <2>6. \A k \in 1 .. j - i + 1 : u[k] = v[k]
    BY <1>2, <2>2, <2>4, <2>5
  <2>7. u = v
    BY <2>4, <2>5, <2>6, SeqEqual DEF Texts
  <2>8. u[1] = t[i]
    BY <1>2, <2>1, <2>2, <2>4
  <2>9. u # <<>>
    BY <2>2, <2>4
  <2>10. QED  BY <2>7, <2>8, <2>9 DEF u, v
<1>7. ASSUME NEW i, NEW j, IsPiece(s, i, j), j # m
      PROVE  SubSeq(s, i, j) \in Pieces(t)
  <2>1. i \in 1 .. m /\ j \in 1 .. m /\ i <= j /\ j + 1 \in 1 .. m
    BY <1>1, <1>5, <1>7
  <2>2. Ends(t, j + 1)
    BY <1>3, <1>7, <2>1 DEF IsPiece
  <2>3. IsPiece(t, i, j)
    <3>1. i \in 1 .. L /\ j \in 1 .. L
      BY <1>1, <2>1
    <3>2. QED  BY <1>1, <1>5, <1>7, <2>1, <2>2, <3>1 DEF IsPiece
  <2>4. SubSeq(t, i, j) \in Pieces(t)
    BY <2>3, PiecesAre
  <2>5. QED  BY <1>6, <1>7, <2>4
<1>8. ASSUME NEW i, NEW j, IsPiece(s, i, j)
      PROVE  \E whole \in Pieces(t) : whole[1] = t[i]
  <2> DEFINE T == {k \in i .. L : Ends(t, k + 1)}
  <2>1. /\ i \in 1 .. m /\ i \in 1 .. L /\ i \in Nat /\ Ends(t, i - 1) /\ ~Ends(t, i)
    <3>1. i \in 1 .. m /\ j \in 1 .. m /\ i <= j /\ i \in i .. j
      BY <1>1, <1>5, <1>8
    <3>2. QED  BY <1>1, <1>5, <1>8, <3>1
  <2>2. T \subseteq Nat /\ L \in T
    <3>1. L + 1 \in Int /\ L + 1 \notin 1 .. L /\ L \in i .. L
      BY <1>1, <2>1
    <3>2. QED  BY <1>1, <1>4, <2>1, <3>1
  <2>3. PICK k \in T : \A h \in T : k <= h
    <3> HIDE DEF T
    <3>1. QED  BY <2>2, Smallest
  <2>4. \A h \in i .. k : ~Ends(t, h)
    <3> SUFFICES ASSUME NEW h \in i .. k, Ends(t, h)
                 PROVE  FALSE
      OBVIOUS
    <3>1. k \in Nat /\ k <= L /\ h # i
      BY <1>1, <2>1, <2>3
    <3>2. h - 1 \in i .. L /\ (h - 1) + 1 = h /\ h - 1 < k
      BY <1>1, <2>1, <3>1
    <3>3. h - 1 \in T
      BY <3>2
    <3>4. QED  BY <2>1, <2>3, <3>1, <3>2, <3>3
  <2>5. IsPiece(t, i, k)
    <3>1. k \in 1 .. L /\ i <= k /\ Ends(t, k + 1)
      BY <1>1, <2>1, <2>3
    <3>2. QED  BY <1>1, <2>1, <2>4, <3>1 DEF IsPiece
  <2>6. SubSeq(t, i, k) \in Pieces(t)
    BY <2>5, PiecesAre
  <2>7. SubSeq(t, i, k)[1] = t[i]
    <3>1. /\ i \in Int /\ k \in Int /\ 1 \in 1 .. k - i + 1 /\ i + 1 - 1 = i
          /\ \A h \in i .. k : h \in 1 .. L
      BY <1>1, <2>1, <2>3
    <3>2. \A h \in i .. k : t[h] \in TextDigits \cup {Comma}
      BY <1>1, <3>1
    <3>3. \A h \in 1 .. k - i + 1 : SubSeq(t, i, k)[h] = t[i + h - 1]
      BY <3>1, <3>2, SubSeqProperties
    <3>4. QED  BY <3>1, <3>3
  <2>8. QED  BY <2>6, <2>7
<1>9. ASSUME NEW i, NEW h, IsPiece(s, i, m), IsPiece(s, h, m)
      PROVE  i = h
  <2>1. /\ i \in 1 .. m /\ h \in 1 .. m /\ Ends(t, i - 1) /\ Ends(t, h - 1)
        /\ \A k \in i .. m : ~Ends(t, k)
        /\ \A k \in h .. m : ~Ends(t, k)
    BY <1>5, <1>9
  <2>2. \A k \in i .. m : ~Ends(t, k)
    BY <1>5, <1>9
  <2>3. ~(i < h)
    <3>1. i < h => h - 1 \in i .. m
      BY <1>1, <2>1
    <3>2. QED  BY <2>1, <2>2, <3>1
  <2>4. ~(h < i)
    <3>1. h < i => i - 1 \in h .. m
      BY <1>1, <2>1
    <3>2. QED  BY <1>5, <1>9, <2>1, <3>1
  <2>5. i \in Int /\ h \in Int
    BY <1>1, <2>1
  <2>6. QED  BY <2>3, <2>4, <2>5
<1> DEFINE last == CHOOSE piece : \E i : IsPiece(s, i, m) /\ piece = SubSeq(s, i, m)
<1>10. \A i : IsPiece(s, i, m) => SubSeq(s, i, m) = last
  <2> SUFFICES ASSUME NEW i, IsPiece(s, i, m)
               PROVE  SubSeq(s, i, m) = last
    OBVIOUS
  <2>1. PICK h : IsPiece(s, h, m) /\ last = SubSeq(s, h, m)
    OBVIOUS
  <2> HIDE DEF last
  <2>2. i = h
    BY <1>9, <2>1
  <2>3. QED  BY <2>1, <2>2
<1> HIDE DEF last
<1>11. ASSUME NEW piece \in Pieces(s)
       PROVE  /\ piece \in Pieces(t) \/ piece = last
              /\ piece # <<>>
              /\ \E whole \in Pieces(t) : whole[1] = piece[1]
  <2>1. PICK i, j : IsPiece(s, i, j) /\ piece = SubSeq(s, i, j)
    BY PiecesAre
  <2>2. piece \in Pieces(t) \/ piece = last
    <3>1. CASE j = m
      BY <1>10, <2>1, <3>1
    <3>2. CASE j # m
      BY <1>7, <2>1, <3>2
    <3>3. QED  BY <3>1, <3>2
  <2>3. piece # <<>> /\ piece[1] = t[i]
    BY <1>6, <2>1
  <2>4. PICK whole \in Pieces(t) : whole[1] = t[i]
    BY <1>8, <2>1
  <2>5. QED  BY <2>2, <2>3, <2>4
<1>12. QED  BY <1>11 DEF s

\* LEMMA.  What a sender takes of a request for the numbers M, none of them 0: these that are
\* of its packets if the request is whole, and one other at most if not; 0 never.
LEMMA OrdersFacts ==
  ASSUME NEW M, IsFiniteSet(M), M \subseteq Nat \ {0}, M # {},
         NEW text, text = rexmitMessage(M), NEW bytes \in Nat \ {0},
         NEW taken, taken = handle_rexmit(receiveText(text), bytes)
  PROVE  /\ 0 \notin taken
         /\ Len(text) <= MAX_DATAGRAM_SIZE - RequestHeader => taken = {n \in M : n % bytes = 0}
         /\ Cardinality(taken \ M) \in {0, 1}
         /\ Len(text) <= MAX_DATAGRAM_SIZE - RequestHeader => Cardinality(taken \ M) = 0
<1> DEFINE room == MAX_DATAGRAM_SIZE - RequestHeader
           m == Least(Len(text), room)
           cut == receiveText(text)
<1>1. room \in Nat /\ room > 0
  BY MessagesAssumption
<1>2. text \in Texts /\ Pieces(text) = {DigitsOf(n) : n \in M}
  <2>1. M \subseteq Nat
    OBVIOUS
  <2>2. QED  BY <2>1, PiecesOfMessage
<1>3. \A n \in M : /\ DigitsOf(n) \in Seq(TextDigits) /\ DigitsOf(n) # <<>>
                   /\ stoul(DigitsOf(n)) = n /\ DigitsOf(n)[1] # 0
  BY DigitsFacts
<1>4. m \in 0 .. Len(text) /\ cut = SubSeq(text, 1, m) /\ (Len(text) <= room => m = Len(text))
  <2>1. Len(text) \in Nat
    BY <1>2 DEF Texts
  <2> HIDE DEF room
  <2>2. m \in 0 .. Len(text) /\ (Len(text) <= room => m = Len(text))
    BY <1>1, <2>1 DEF Least
  <2>3. QED  BY <2>2 DEF receiveText, room
<1> HIDE DEF room, m, cut
<1>5. PICK last :
        \A piece \in Pieces(cut) :
          /\ piece \in Pieces(text) \/ piece = last
          /\ piece # <<>>
          /\ \E whole \in Pieces(text) : whole[1] = piece[1]
  BY <1>2, <1>4, PiecesOfCut
<1>6. taken = {n \in {stoul(piece) : piece \in Pieces(cut)} : n % bytes = 0}
  BY DEF handle_rexmit, cut
<1>7. \A piece \in Pieces(cut) : piece \in Seq(TextDigits)
  <2> SUFFICES ASSUME NEW piece \in Pieces(cut)
               PROVE  piece \in Seq(TextDigits)
    OBVIOUS
  <2>1. PICK i, j : IsPiece(cut, i, j) /\ piece = SubSeq(cut, i, j)
    BY PiecesAre
  <2>2. cut \in Seq(TextDigits \cup {Comma})
    <3>1. text \in Seq(TextDigits \cup {Comma}) /\ m \in Nat /\ m <= Len(text)
      BY <1>2, <1>4 DEF Texts
    <3>2. \A k \in 1 .. m : text[k] \in TextDigits \cup {Comma}
      BY <3>1
    <3>3. SubSeq(text, 1, m) \in Seq(TextDigits \cup {Comma})
      BY <3>1, <3>2, SubSeqProperties
    <3>4. QED  BY <1>4, <3>3
  <2>3. /\ i \in DOMAIN cut /\ j \in DOMAIN cut /\ i <= j
        /\ \A k \in i .. j : k \in DOMAIN cut /\ cut[k] # Comma
    BY <2>1, <2>2 DEF IsPiece, Ends
  <2>4. \A k \in i .. j : cut[k] \in TextDigits
    BY <2>2, <2>3
  <2>5. i \in Int /\ j \in Int
    BY <2>2, <2>3
  <2>6. QED  BY <2>1, <2>4, <2>5, SubSeqProperties
<1>8. 0 \notin taken
  <2> SUFFICES ASSUME NEW piece \in Pieces(cut), stoul(piece) = 0
               PROVE  FALSE
    BY <1>6
  <2>1. PICK n \in M : DigitsOf(n)[1] = piece[1]
    BY <1>2, <1>5
  <2>2. piece[1] # 0 /\ piece # <<>> /\ piece \in Seq(TextDigits)
    BY <1>3, <1>5, <1>7, <2>1
  <2>3. stoul(piece) > 0
    BY <2>2, StoulFacts
  <2>4. QED  BY <2>3
<1>9. \A piece \in Pieces(text) : stoul(piece) \in M
  BY <1>2, <1>3
<1>10. taken \ M \subseteq {stoul(last)}
  BY <1>5, <1>6, <1>9
<1>11. Cardinality(taken \ M) \in {0, 1}
  <2>1. taken \ M = {} \/ taken \ M = {stoul(last)}
    BY <1>10
  <2>2. QED  BY <2>1, FS_EmptySet, FS_Singleton
<1>12. ASSUME Len(text) <= room
       PROVE  taken = {n \in M : n % bytes = 0}
  <2>1. cut = text
    <3>1. text \in Seq(TextDigits \cup {Comma})
      BY <1>2 DEF Texts
    <3>2. SubSeq(text, 1, Len(text)) = text
      BY <3>1, SubSeqFull
    <3>3. QED  BY <1>4, <1>12, <3>2
  <2>2. {stoul(piece) : piece \in Pieces(text)} = M
    BY <1>2, <1>3
  <2>3. QED  BY <1>6, <2>1, <2>2
<1>13. ASSUME Len(text) <= room
       PROVE  Cardinality(taken \ M) = 0
  <2>1. taken \ M = {}
    BY <1>12, <1>13
  <2>2. QED  BY <2>1, FS_EmptySet
<1>14. QED  BY <1>8, <1>11, <1>12, <1>13 DEF room

-------------------------------------------------------------------------------
(* Numbers on their way                                                    *)

Digits == 0 .. Byte - 1

\* The number of four bytes, the most significant first.
Number(a, b, c, d) == (a * Byte + b) * Half + (c * Byte + d)

\* LEMMA.  Quotient and remainder of what has been put together of them.
LEMMA DivMod ==
  ASSUME NEW m \in Nat \ {0}, NEW x \in Nat, NEW y \in 0 .. m - 1
  PROVE  (x * m + y) \div m = x /\ (x * m + y) % m = y
<1> DEFINE n == x * m + y
           q == n \div m
           r == n % m
<1>1. n \in Nat
  OBVIOUS
<1>2. q \in Nat /\ r \in 0 .. m - 1 /\ n = q * m + r
  BY <1>1
<1>3. x * m + y = q * m + r
  BY <1>2
<1> HIDE DEF n, q, r
<1>4. ~(q < x)
  <2> SUFFICES ASSUME q < x PROVE FALSE
    OBVIOUS
  <2>1. PICK k \in Nat : x = q + 1 + k
    BY <1>2
  <2>2. x * m = q * m + m + k * m
    BY <1>2, <2>1
  <2>3. k * m >= 0
    BY <2>1
  <2>4. q * m \in Int /\ k * m \in Int /\ x * m \in Int
    BY <1>2, <2>1
  <2>5. QED  BY <1>2, <1>3, <2>2, <2>3, <2>4
<1>5. ~(x < q)
  <2> SUFFICES ASSUME x < q PROVE FALSE
    OBVIOUS
  <2>1. PICK k \in Nat : q = x + 1 + k
    BY <1>2
  <2>2. q * m = x * m + m + k * m
    BY <1>2, <2>1
  <2>3. k * m >= 0
    BY <2>1
  <2>4. q * m \in Int /\ k * m \in Int /\ x * m \in Int
    BY <1>2, <2>1
  <2>5. QED  BY <1>2, <1>3, <2>2, <2>3, <2>4
<1>6. q = x
  BY <1>2, <1>4, <1>5
<1>7. r = y
  BY <1>2, <1>3, <1>6
<1>8. QED  BY <1>6, <1>7 DEF q, r, n

\* LEMMA.  The halves of a number and their bytes.
LEMMA NumberParts ==
  ASSUME NEW a \in Digits, NEW b \in Digits, NEW c \in Digits, NEW d \in Digits
  PROVE  /\ Number(a, b, c, d) \div Half = a * Byte + b
         /\ Number(a, b, c, d) % Half = c * Byte + d
         /\ (a * Byte + b) \div Byte = a /\ (a * Byte + b) % Byte = b
         /\ (c * Byte + d) \div Byte = c /\ (c * Byte + d) % Byte = d
<1>1. Byte \in Nat \ {0} /\ Half \in Nat \ {0}
  BY MessagesAssumption DEF Half
<1>2. \A x, y \in Digits : x * Byte + y \in 0 .. Half - 1
  <2> SUFFICES ASSUME NEW x \in Digits, NEW y \in Digits
               PROVE  x * Byte + y \in 0 .. Half - 1
    OBVIOUS
  <2>1. x * Byte <= (Byte - 1) * Byte /\ x * Byte \in Nat
    BY <1>1 DEF Digits
  <2>2. (Byte - 1) * Byte = Half - Byte
    BY <1>1 DEF Half
  <2>3. QED  BY <1>1, <2>1, <2>2 DEF Digits
<1>3. a * Byte + b \in Nat /\ c * Byte + d \in 0 .. Half - 1
  BY <1>2
<1>4. Number(a, b, c, d) \div Half = a * Byte + b /\ Number(a, b, c, d) % Half = c * Byte + d
  BY <1>1, <1>3, DivMod DEF Number
<1>5. Digits \subseteq Nat /\ Digits = 0 .. Byte - 1
  BY DEF Digits
<1>6. QED  BY <1>1, <1>4, <1>5, DivMod

\* LEMMA.  A number less than a square is made of two less than its root.
LEMMA TwoParts ==
  ASSUME NEW m \in Nat \ {0}, NEW x \in Nat, x < m * m
  PROVE  \E u, v \in 0 .. m - 1 : x = u * m + v
<1> DEFINE q == x \div m
           r == x % m
<1>1. q \in Nat /\ r \in 0 .. m - 1 /\ x = q * m + r
  OBVIOUS
<1> HIDE DEF q, r
<1>2. q < m
  <2> SUFFICES ASSUME q >= m PROVE FALSE
    BY <1>1
  <2>1. q * m >= m * m /\ q * m \in Nat
    BY <1>1
  <2>2. QED  BY <1>1, <2>1
<1>3. QED  BY <1>1, <1>2

\* LEMMA.  Every number that fits has its four bytes.
LEMMA HasBytes ==
  ASSUME NEW n \in Nat, n < Half * Half
  PROVE  \E a, b, c, d \in Digits : n = Number(a, b, c, d)
<1>1. Byte \in Nat \ {0} /\ Half \in Nat \ {0}
  BY MessagesAssumption DEF Half
<1>2. PICK h, l \in 0 .. Half - 1 : n = h * Half + l
  BY <1>1, TwoParts
<1>3. h \in Nat /\ h < Byte * Byte /\ l \in Nat /\ l < Byte * Byte
  BY <1>1, <1>2 DEF Half
<1>4. PICK a, b \in Digits : h = a * Byte + b
  BY <1>1, <1>3, TwoParts DEF Digits
<1>5. PICK c, d \in Digits : l = c * Byte + d
  BY <1>1, <1>3, TwoParts DEF Digits
<1>6. QED  BY <1>2, <1>4, <1>5 DEF Number

\* LEMMA.  htonl64 turns the bytes of a little-endian computer around.
LEMMA TurnsAround ==
  ASSUME NEW host, NEW a \in Digits, NEW b \in Digits, NEW c \in Digits, NEW d \in Digits
  PROVE  htonl64(host, Number(a, b, c, d)) =
           IF host = "big" THEN Number(a, b, c, d) ELSE Number(d, c, b, a)
<1>1. CASE host = "big"
  BY <1>1 DEF htonl64
<1>2. CASE host # "big"
  <2>1. htonl(host, a * Byte + b) = b * Byte + a /\ htonl(host, c * Byte + d) = d * Byte + c
    BY <1>2, NumberParts DEF htonl
  <2>2. QED  BY <1>2, <2>1, NumberParts DEF htonl64, Number
<1>3. QED  BY <1>1, <1>2

\* LEMMA.  Whatever the computer, the bytes of htonl64 are the number's, the most
\* significant first; and what it makes of such bytes in its memory is the number.
LEMMA NetworkOrder ==
  ASSUME NEW host, NEW a \in Digits, NEW b \in Digits, NEW c \in Digits, NEW d \in Digits
  PROVE  /\ InMemory(host, htonl64(host, Number(a, b, c, d))) = <<a, b, c, d>>
         /\ htonl64(host, FromMemory(host, <<a, b, c, d>>)) = Number(a, b, c, d)
<1>1. ASSUME NEW u \in Digits, NEW v \in Digits, NEW w \in Digits, NEW x \in Digits
      PROVE  /\ InMemory("big", Number(u, v, w, x)) = <<u, v, w, x>>
             /\ host # "big" => InMemory(host, Number(u, v, w, x)) = <<x, w, v, u>>
             /\ FromMemory("big", <<u, v, w, x>>) = Number(u, v, w, x)
             /\ host # "big" => FromMemory(host, <<u, v, w, x>>) = Number(x, w, v, u)
  <2>2. Reverse(<<u, v, w, x>>) = <<x, w, v, u>>
    BY DEF Reverse
  <2>3. InMemory("big", Number(u, v, w, x)) = <<u, v, w, x>>
    BY NumberParts DEF InMemory
  <2>4. host # "big" => InMemory(host, Number(u, v, w, x)) = <<x, w, v, u>>
    BY <2>2, NumberParts DEF InMemory
  <2>5. \A p, q, r, s \in Digits : ((p * Byte + q) * Byte + r) * Byte + s = Number(p, q, r, s)
    BY MessagesAssumption DEF Number, Half, Digits
  <2>6. FromMemory("big", <<u, v, w, x>>) = Number(u, v, w, x)
    BY <2>5 DEF FromMemory
  <2>7. host # "big" => FromMemory(host, <<u, v, w, x>>) = Number(x, w, v, u)
    BY <2>2, <2>5 DEF FromMemory
  <2>8. QED  BY <2>3, <2>4, <2>6, <2>7
<1>2. QED  BY <1>1, TurnsAround

\* LEMMA.  The numbers of a packet come through, between computers of either endianness.
LEMMA PacketComesThrough ==
  ASSUME NEW to, NEW from, NEW p, p.session \in Nat, p.session < Half * Half,
         p.fbn \in Nat, p.fbn < Half * Half
  PROVE  fromBytes(to, receive(toBytes(from, p))) =
           [session |-> p.session, fbn |-> p.fbn,
            size |-> Least(p.size, MAX_DATAGRAM_SIZE - PacketHeader)]
<1>1. PICK a, b, c, d \in Digits : p.session = Number(a, b, c, d)
  BY HasBytes
<1>2. PICK e, f, g, h \in Digits : p.fbn = Number(e, f, g, h)
  BY HasBytes
<1>3. /\ InMemory(from, htonl64(from, Number(a, b, c, d))) = <<a, b, c, d>>
      /\ htonl64(from, FromMemory(from, <<a, b, c, d>>)) = Number(a, b, c, d)
  BY NetworkOrder
<1>4. /\ InMemory(from, htonl64(from, Number(e, f, g, h))) = <<e, f, g, h>>
      /\ htonl64(from, FromMemory(from, <<e, f, g, h>>)) = Number(e, f, g, h)
  BY NetworkOrder
<1> DEFINE datagram == toBytes(from, p)
<1>5. datagram = [session |-> <<a, b, c, d>>, fbn |-> <<e, f, g, h>>, size |-> p.size]
  BY <1>1, <1>2, <1>3, <1>4 DEF toBytes
<1> HIDE DEF datagram
<1>6. /\ receive(datagram).session = <<a, b, c, d>>
      /\ receive(datagram).fbn = <<e, f, g, h>>
      /\ receive(datagram).size = Least(p.size, MAX_DATAGRAM_SIZE - PacketHeader)
  BY <1>5 DEF receive
<1>7. QED  BY <1>1, <1>2, <1>6, NetworkOrder DEF fromBytes, datagram

-------------------------------------------------------------------------------
(* What is in the air and in the buffer                                    *)

\* A datagram has in it the packet that its station sent.
Carries(d) ==
  /\ d.from \in Stations /\ d.run \in 1 .. run(d.from)
  /\ d.number \in Nat /\ d.number < Half * Half
  /\ d.bytes = toBytes(Host[d.from], [session |-> second[d.from][d.run], fbn |-> d.number,
                                      size |-> settings.psize[d.from]])

StationsInv ==
  /\ settings \in Settings
  /\ tuned \in Stations
  /\ second \in [Stations -> Seq(1 .. MaxSecond)] /\ \A s \in Stations : run(s) > 0
  /\ produced \in [Stations -> Nat]
  /\ \A s \in Stations : produced[s] <= settings.packets[s]

AirInv == \A d \in air : Carries(d)

\* Where a packet in the buffer, or on its way into it, is from.
Came(p) ==
  /\ p.session = session_id /\ p.size = session_psize
  /\ \E d \in air : p = Read(d)
  /\ initiated => settings.port[p.from] = settings.port[tuned]

\* The packets in the list, and the one on its way into it.
Present == {p \in Heard \cup {pushing} : p # NoPacket}

\* They were sent to one port, though the receiver may be tuned to another meanwhile.
OnePort == \A p, q \in Present : settings.port[p.from] = settings.port[q.from]

BufferInv ==
  /\ packets \in Seq(Arrivals \cup {Missing})
  /\ pushing \in Arrivals \cup {NoPacket}
  /\ \A p \in Heard : Came(p)
  /\ pushing # NoPacket => packets # <<>> /\ Came(pushing)
  /\ OnePort

IInv == StationsInv /\ (NoBlankSent => AirInv /\ BufferInv)

\* LEMMA.  A sequence has a length, and its elements where it has them from.
LEMMA ElementFacts ==
  ASSUME NEW S, NEW q, q \in Seq(S)
  PROVE  Len(q) \in Nat /\ \A i \in 1 .. Len(q) : q[i] \in S
  OBVIOUS

\* LEMMA.  What is read of a datagram is what was sent.
LEMMA ReadFacts ==
  ASSUME StationsInv, NEW d, Carries(d)
  PROVE  /\ Read(d) = [fbn |-> d.number,
                       size |-> Least(settings.psize[d.from], MAX_DATAGRAM_SIZE - PacketHeader),
                       session |-> second[d.from][d.run], from |-> d.from, run |-> d.run,
                       number |-> d.number]
         /\ Read(d) \in Arrivals /\ Read(d).size > 0
<1> DEFINE p == [session |-> second[d.from][d.run], fbn |-> d.number,
                 size |-> settings.psize[d.from]]
           room == MAX_DATAGRAM_SIZE - PacketHeader
<1>0. /\ d.from \in Stations /\ d.number \in Nat /\ d.number < Half * Half
      /\ Half * Half \in Nat
      /\ second[d.from][d.run] \in Nat /\ second[d.from][d.run] < Half * Half
      /\ d.run \in Nat
  <2>1. /\ d.from \in Stations /\ second[d.from] \in Seq(1 .. MaxSecond)
        /\ d.run \in 1 .. Len(second[d.from])
        /\ d.number \in Nat /\ d.number < Half * Half
    BY DEF Carries, StationsInv, run
  <2>2. second[d.from][d.run] \in 1 .. MaxSecond /\ d.run \in Nat
    <3>1. second[d.from][d.run] \in 1 .. MaxSecond
      BY ONLY <2>1, ElementFacts
    <3>2. QED  BY <2>1, <3>1
  <2>3. Half * Half \in Nat
    BY MessagesAssumption DEF Half
  <2>4. QED  BY <2>1, <2>2, <2>3, NumbersAssumption
<1>1. /\ p.session \in Nat /\ p.session < Half * Half /\ p.fbn \in Nat /\ p.fbn < Half * Half
      /\ p.size = settings.psize[d.from]
  BY <1>0
<1>2. settings.psize[d.from] \in Nat \ {0} /\ room \in Nat \ {0}
  BY SettingsAssumption, MessagesAssumption DEF Carries, StationsInv, PacketHeader
<1>3. Least(settings.psize[d.from], room) \in Nat \ {0}
  BY <1>2 DEF Least
<1>4. d.bytes = toBytes(Host[d.from], p)
  BY DEF Carries
<1> HIDE DEF p, room
<1>6. fromBytes(Host[Receiver], receive(d.bytes)) =
        [session |-> p.session, fbn |-> p.fbn, size |-> Least(p.size, room)]
  BY <1>1, <1>4, PacketComesThrough DEF room
<1>7. Read(d) = [fbn |-> p.fbn, size |-> Least(p.size, room), session |-> p.session,
                 from |-> d.from, run |-> d.run, number |-> d.number]
  BY <1>6 DEF Read
<1>8. Read(d) = [fbn |-> d.number, size |-> Least(settings.psize[d.from], room),
                 session |-> second[d.from][d.run], from |-> d.from, run |-> d.run,
                 number |-> d.number]
  BY <1>1, <1>7 DEF p
<1>9. QED  BY <1>0, <1>3, <1>8 DEF Arrivals, room

LEMMA InitInv == TransmissionInit => IInv
<1> SUFFICES ASSUME TransmissionInit PROVE IInv
  OBVIOUS
<1>2. StationsInv
  <2>1. PICK now \in [Stations -> 1 .. MaxSecond] : second = [s \in Stations |-> <<now[s]>>]
    BY DEF TransmissionInit
  <2>2. \A s \in Stations : settings.packets[s] \in Nat
    BY SettingsAssumption DEF TransmissionInit
  <2>3. \A s \in Stations : <<now[s]>> \in Seq(1 .. MaxSecond) /\ Len(<<now[s]>>) = 1
    OBVIOUS
  <2>4. second \in [Stations -> Seq(1 .. MaxSecond)] /\ \A s \in Stations : run(s) > 0
    BY <2>1, <2>3 DEF run
  <2>5. QED  BY <2>2, <2>4 DEF TransmissionInit, StationsInv
<1>3. AirInv
  BY DEF TransmissionInit, AirInv
<1>4. BufferInv
  BY DEF TransmissionInit, Buffer!Init, BufferInv, Heard, Present, OnePort
<1>5. QED  BY <1>2, <1>3, <1>4 DEF IInv

\* LEMMA.  A station is started again in a second.
LEMMA RestartSecond ==
  ASSUME StationsInv, NEW s \in Stations, restart(s)
  PROVE  \E now \in 1 .. MaxSecond : second' = [second EXCEPT ![s] = Append(@, now)]
<1>1. second[s] \in Seq(1 .. MaxSecond) /\ Len(second[s]) > 0
  BY DEF StationsInv, run
<1>2. session_id_of(s) \in 1 .. MaxSecond
  <2>1. Len(second[s]) \in 1 .. Len(second[s])
    BY <1>1, ElementFacts
  <2>2. second[s][Len(second[s])] \in 1 .. MaxSecond
    BY <1>1, <2>1, ElementFacts
  <2>3. QED  BY <2>2 DEF session_id_of, run
<1>3. PICK now \in session_id_of(s) .. MaxSecond : second' = [second EXCEPT ![s] = Append(@, now)]
  BY DEF restart
<1>4. now \in 1 .. MaxSecond
  BY <1>2, NumbersAssumption
<1>5. QED  BY <1>3, <1>4

\* LEMMA.  The runs there were keep their places and their seconds.
LEMMA LaterRuns ==
  ASSUME StationsInv, NEW s \in Stations, NEW now \in 1 .. MaxSecond,
         second' = [second EXCEPT ![s] = Append(@, now)]
  PROVE  /\ second' \in [Stations -> Seq(1 .. MaxSecond)]
         /\ \A t \in Stations :
              /\ run(t)' > 0
              /\ \A i \in 1 .. run(t) : i \in 1 .. run(t)' /\ second'[t][i] = second[t][i]
<1> DEFINE S == 1 .. MaxSecond
<1>1. /\ second \in [Stations -> Seq(S)] /\ now \in S
      /\ \A t \in Stations : Len(second[t]) > 0
  BY DEF StationsInv, run
<1> HIDE DEF S
<1>2. \A t \in Stations : second'[t] = IF t = s THEN Append(second[t], now) ELSE second[t]
  BY <1>1
<1>3. ASSUME NEW t \in Stations
      PROVE  /\ second'[t] \in Seq(S) /\ Len(second'[t]) >= Len(second[t])
             /\ \A i \in 1 .. Len(second[t]) : second'[t][i] = second[t][i]
             /\ Len(second[t]) \in Nat /\ Len(second'[t]) \in Nat
  <2>1. PICK q \in Seq(S) : q = second[t]
    BY <1>1
  <2>2. CASE t = s
    <3>1. second'[t] = Append(q, now)
      BY <1>2, <2>1, <2>2
    <3>2. /\ Append(q, now) \in Seq(S) /\ Len(Append(q, now)) = Len(q) + 1 /\ Len(q) \in Nat
          /\ \A i \in 1 .. Len(q) : Append(q, now)[i] = q[i]
      BY <1>1
    <3>3. QED  BY <2>1, <3>1, <3>2
  <2>3. CASE t # s
    <3>1. second'[t] = q /\ q \in Seq(S)
      BY <1>1, <1>2, <2>1, <2>3
    <3>2. Len(q) \in Nat /\ Len(q) >= Len(q)
      BY <3>1, ElementFacts
    <3>3. second'[t] = second[t] /\ q = second[t]
      BY <2>1, <3>1
    <3>4. QED  BY ONLY <3>1, <3>2, <3>3
  <2>4. QED  BY <2>2, <2>3
<1>4. second' \in [Stations -> Seq(S)]
  BY <1>1, <1>3
<1>5. QED  BY <1>1, <1>3, <1>4 DEF run, S

\* LEMMA.  What the stations send they send of their present runs.
LEMMA StationSteps ==
  ASSUME IInv, NEW s \in Stations, streamer(s) \/ resend_packets(s) \/ restart(s)
  PROVE  IInv'
<1>1. /\ StationsInv /\ settings \in Settings /\ settings' = settings /\ tuned' = tuned
      /\ UNCHANGED <<packets, pushing, session_id, session_psize, initiated>>
      /\ air \subseteq air'
  BY DEF IInv, StationsInv, streamer, resend_packets, restart, receiverVars, bufferVars,
         stationVars
<1>2. /\ settings.packets[s] \in Nat /\ settings.psize[s] \in Nat \ {0}
      /\ settings.packets[s] * settings.psize[s] <= Half * Half /\ Half * Half \in Nat
      /\ produced[s] \in Nat /\ produced[s] <= settings.packets[s]
  BY <1>1, SettingsAssumption, NumbersAssumption, MessagesAssumption DEF StationsInv, Half
<1>3. StationsInv'
  <2>1. CASE streamer(s)
    <3>1. /\ produced[s] < settings.packets[s] /\ produced' = [produced EXCEPT ![s] = @ + 1]
          /\ UNCHANGED second
      BY <2>1 DEF streamer
    <3>2. QED  BY <1>1, <1>2, <3>1 DEF StationsInv, run
  <2>2. CASE resend_packets(s)
    BY <1>1, <2>2 DEF StationsInv, run, resend_packets, stationVars
  <2>3. CASE restart(s)
    <3>1. produced' = [produced EXCEPT ![s] = 0]
      BY <2>3 DEF restart
    <3>2. PICK now \in 1 .. MaxSecond : second' = [second EXCEPT ![s] = Append(@, now)]
      BY <1>1, <2>3, RestartSecond
    <3>3. /\ second' \in [Stations -> Seq(1 .. MaxSecond)]
          /\ \A t \in Stations : run(t)' > 0
      BY <1>1, <3>2, LaterRuns
    <3>4. produced' \in [Stations -> Nat] /\ \A t \in Stations : produced'[t] <= settings.packets[t]
      BY <1>1, <1>2, <3>1 DEF StationsInv
    <3>5. QED  BY <1>1, <3>3, <3>4 DEF StationsInv
  <2>4. QED  BY <2>1, <2>2, <2>3
<1>4. ASSUME NoBlankSent'
      PROVE  AirInv'
  <2>1. NoBlankSent /\ AirInv
    BY <1>1, <1>4 DEF IInv, NoBlankSent
  <2>3. CASE restart(s)
    <3>1. air' = air
      BY <2>3 DEF restart
    <3>2. PICK now \in 1 .. MaxSecond : second' = [second EXCEPT ![s] = Append(@, now)]
      BY <1>1, <2>3, RestartSecond
    <3>3. \A d : Carries(d) => Carries(d)'
      BY <1>1, <3>2, LaterRuns DEF Carries
    <3>4. QED  BY <2>1, <3>1, <3>3 DEF AirInv
  <2>4. CASE streamer(s) \/ resend_packets(s)
    <3>1. UNCHANGED second
      BY <2>4 DEF streamer, resend_packets, stationVars
    <3>2. \/ air' = air \cup {BlankPacket(s)}
          \/ \E to \in {"group", "receiver"} : \E n \in Nat :
               n < settings.packets[s] /\ air' = air \cup {Datagram(s, n, to)}
      <4>1. CASE streamer(s)
        BY <1>2, <4>1 DEF streamer
      <4>2. ASSUME NEW n \in 0 .. produced[s] - 1, air' = air \cup {Datagram(s, n, "receiver")}
            PROVE  n \in Nat /\ n < settings.packets[s]
        BY <1>2
      <4>3. QED  BY <2>4, <4>1, <4>2 DEF resend_packets
    <3>3. air' # air \cup {BlankPacket(s)}
      <4>1. BlankPacket(s).bytes.size = 0
        BY DEF BlankPacket, toBytes
      <4>2. BlankPacket(s) \notin air'
        BY <1>4, <4>1 DEF NoBlankSent
      <4>3. QED  BY <4>2
    <3>4. PICK to \in {"group", "receiver"}, n \in Nat :
            n < settings.packets[s] /\ air' = air \cup {Datagram(s, n, to)}
      BY <3>2, <3>3
    <3>5. PICK x : x = Datagram(s, n, to)
      OBVIOUS
    <3>6. Carries(x)'
      <4>1. /\ n * settings.psize[s] \in Nat
            /\ n * settings.psize[s] < settings.packets[s] * settings.psize[s]
        BY <1>2, <3>4
      <4>2. n * settings.psize[s] < Half * Half
        BY ONLY <1>2, <4>1
      <4>3. /\ x.from = s /\ x.run = run(s) /\ x.number = n * settings.psize[s]
            /\ x.bytes = toBytes(Host[s], [session |-> second[s][run(s)], fbn |-> x.number,
                                           size |-> settings.psize[s]])
        BY <3>5 DEF Datagram, session_id_of
      <4>4. run(s) \in 1 .. run(s)
        BY <1>1 DEF StationsInv, run
      <4>5. QED  BY <1>1, <3>1, <4>1, <4>2, <4>3, <4>4 DEF Carries, run
    <3>7. \A d : Carries(d) => Carries(d)'
      BY <1>1, <3>1 DEF Carries, run
    <3>8. QED  BY <2>1, <3>4, <3>5, <3>6, <3>7 DEF AirInv
  <2>5. QED  BY <2>3, <2>4
<1>5. ASSUME NoBlankSent'
      PROVE  BufferInv'
  <2>1. NoBlankSent /\ BufferInv
    BY <1>1, <1>5 DEF IInv, NoBlankSent
  <2>2. Heard' = Heard /\ Present' = Present
    BY <1>1 DEF Heard, Present
  <2>3. (\A p : Came(p) => Came(p)') /\ (OnePort => OnePort')
    BY <1>1, <2>2 DEF Came, OnePort
  <2>4. QED  BY <1>1, <2>1, <2>2, <2>3 DEF BufferInv
<1>6. QED  BY <1>3, <1>4, <1>5 DEF IInv

\* LEMMA.  Steps of the receiver leave the stations and the air alone.
LEMMA Elsewhere ==
  ASSUME IInv, UNCHANGED <<stationVars, settings, air>>, tuned' \in Stations,
         NoBlankSent => BufferInv'
  PROVE  IInv'
<1>1. StationsInv'
  BY DEF IInv, StationsInv, run, stationVars
<1>2. AirInv => AirInv'
  BY DEF AirInv, Carries, run, stationVars
<1>3. NoBlankSent' <=> NoBlankSent
  BY DEF NoBlankSent
<1>4. QED  BY <1>1, <1>2, <1>3 DEF IInv

\* LEMMA.  The packet of a datagram is taken if it is of the present session, or of a later
\* one, which then takes the place of all there was.
LEMMA ListenerStep ==
  ASSUME IInv, NoBlankSent, NEW d \in air, dataListener(d)
  PROVE  BufferInv'
<1>1. StationsInv /\ AirInv /\ BufferInv
  BY DEF IInv
<1>2. /\ pushing = NoPacket /\ Hears(d)
      /\ UNCHANGED <<tuned, stationVars, settings, air>>
  BY DEF dataListener
<1>3. PICK p \in Arrivals : p = Read(d) /\ p.from = d.from /\ p.size > 0
  <2>1. Carries(d)
    BY <1>1 DEF AirInv
  <2>2. QED  BY <1>1, <2>1, ReadFacts
<1>4. settings.port[p.from] = settings.port[tuned]
  BY <1>2, <1>3 DEF Hears
<1>5. CASE resets(p) /\ resetSession(p)
  <2>1. /\ packets' = <<p>> /\ pushing' = NoPacket
        /\ session_id' = p.session /\ session_psize' = p.size
    BY <1>2, <1>3, <1>5 DEF resetSession, Buffer!AudioBuffer
  <2>2. Came(p)'
    BY <1>2, <1>3, <1>4, <2>1 DEF Came
  <2>3. Heard' = {p}
    <3>1. p # Missing /\ DOMAIN packets' = {1} /\ packets'[1] = p
      BY <1>3, <2>1, MarkersAssumption
    <3>2. QED  BY <3>1 DEF Heard
  <2>4. OnePort'
    BY <2>1, <2>3 DEF OnePort, Present
  <2>5. QED  BY <1>3, <2>1, <2>2, <2>3, <2>4 DEF BufferInv
<1>6. CASE initiated /\ p.session = session_id /\ putPacket(p)
  <2>1. UNCHANGED <<packets, initiated, session_id, session_psize>>
    BY <1>6 DEF putPacket, Buffer!push, Buffer!putMissing, Buffer!pushOnEmpty, Buffer!pushOld,
                Buffer!pushNew, bufferVars, Buffer!bufferVars
  <2>2. \/ pushing' = pushing
        \/ pushing' = p /\ packets # <<>> /\ p.size = session_psize
    BY <1>6 DEF putPacket, Buffer!push, Buffer!putMissing, Buffer!pushOnEmpty, Buffer!pushOld,
                Buffer!pushNew, bufferVars, Buffer!bufferVars
  <2>3. \A q : Came(q)' <=> Came(q)
    BY <1>2, <2>1 DEF Came
  <2>4. p.size = session_psize => Came(p)
    BY <1>3, <1>4, <1>6 DEF Came
  <2>5. Heard' = Heard
    BY <2>1 DEF Heard
  <2>6. OnePort'
    <3>1. \A q \in Present' : q \in Heard \/ q = p
      BY <1>2, <2>2, <2>5 DEF Present
    <3>2. \A q \in Heard : settings.port[q.from] = settings.port[tuned]
      BY <1>1, <1>6 DEF BufferInv, Came
    <3>3. \A q \in Present' : settings.port[q.from] = settings.port[tuned]
      BY <1>4, <3>1, <3>2
    <3>4. QED  BY <1>2, <3>3 DEF OnePort
  <2>7. QED  BY <1>1, <1>2, <2>1, <2>2, <2>3, <2>4, <2>5, <2>6 DEF BufferInv
<1>7. QED  BY <1>3, <1>5, <1>6 DEF dataListener, resets

\* LEMMA.  What is appended is all that is new.
LEMMA AppendFacts ==
  ASSUME NEW S, NEW q \in Seq(S), NEW e \in S
  PROVE  /\ Append(q, e) \in Seq(S) /\ Append(q, e) # <<>>
         /\ \A i \in DOMAIN Append(q, e) :
              Append(q, e)[i] = e \/ (i \in DOMAIN q /\ Append(q, e)[i] = q[i])
<1> DEFINE more == Append(q, e)
<1>1. more \in Seq(S) /\ Len(more) = Len(q) + 1 /\ Len(q) \in Nat
  OBVIOUS
<1>2. more[Len(q) + 1] = e /\ \A i \in 1 .. Len(q) : more[i] = q[i]
  OBVIOUS
<1> HIDE DEF more
<1>3. DOMAIN more = 1 .. Len(q) + 1 /\ DOMAIN q = 1 .. Len(q) /\ more # <<>>
  BY <1>1
<1>4. QED  BY <1>1, <1>2, <1>3 DEF more

\* LEMMA.  The tail of a sequence has nothing that the sequence has not.
LEMMA TailFacts ==
  ASSUME NEW S, NEW q \in Seq(S), q # <<>>
  PROVE  /\ Tail(q) \in Seq(S)
         /\ \A i \in DOMAIN Tail(q) : \E j \in DOMAIN q : Tail(q)[i] = q[j]
<1>1. /\ Tail(q) \in Seq(S) /\ DOMAIN q = 1 .. Len(q) /\ Len(q) \in Nat
      /\ DOMAIN Tail(q) = 1 .. Len(q) - 1
      /\ \A i \in 1 .. Len(q) - 1 : Tail(q)[i] = q[i + 1]
  OBVIOUS
<1>2. \A i \in 1 .. Len(q) - 1 : i + 1 \in 1 .. Len(q)
  BY <1>1
<1>3. QED  BY <1>1, <1>2

\* LEMMA.  The list of a buffer is changed at its ends: by a packet behind it, and by one or
\* none that leaves at the front.
LEMMA BufferSteps ==
  ASSUME IInv, NoBlankSent, pushGoesOn \/ dataOutput \/ missingPacketsManager
  PROVE  BufferInv'
<1>1. BufferInv /\ tuned \in Stations
  BY DEF IInv, StationsInv
<1>2. /\ UNCHANGED <<session_id, session_psize, tuned, stationVars, settings, air>>
      /\ initiated' => initiated
  BY DEF pushGoesOn, dataOutput, missingPacketsManager
<1>3. /\ \A p : Came(p) => Came(p)'
      /\ Present' \subseteq Present => OnePort'
  BY <1>1, <1>2 DEF Came, BufferInv, OnePort
<1>4. CASE pushGoesOn
  <2>1. /\ pushing # NoPacket /\ packets # <<>> /\ Came(pushing) /\ pushing \in Arrivals
        /\ pushing' \in {pushing, NoPacket}
    BY <1>1, <1>4 DEF BufferInv, pushGoesOn, Buffer!fillMissing, Buffer!insertPushed
  <2>2. PICK slot \in {Missing, pushing} :
          packets' = Append(packets, slot) \/ packets' = Append(Tail(packets), slot)
    BY <1>4 DEF pushGoesOn, Buffer!fillMissing, Buffer!insertPushed, Buffer!insertPacket
  <2>3. /\ packets' \in Seq(Arrivals \cup {Missing}) /\ packets' # <<>>
        /\ \A i \in DOMAIN packets' :
             packets'[i] = slot \/ \E j \in DOMAIN packets : packets'[i] = packets[j]
    <3>1. packets \in Seq(Arrivals \cup {Missing}) /\ slot \in Arrivals \cup {Missing}
      BY <1>1, <2>1, <2>2 DEF BufferInv
    <3>2. PICK q \in Seq(Arrivals \cup {Missing}) :
            /\ packets' = Append(q, slot)
            /\ \A i \in DOMAIN q : \E j \in DOMAIN packets : q[i] = packets[j]
      <4>1. CASE packets' = Append(packets, slot)
        BY ONLY <3>1, <4>1
      <4>2. CASE packets' = Append(Tail(packets), slot)
        <5>1. /\ Tail(packets) \in Seq(Arrivals \cup {Missing})
              /\ \A i \in DOMAIN Tail(packets) :
                   \E j \in DOMAIN packets : Tail(packets)[i] = packets[j]
          BY <2>1, <3>1, TailFacts
        <5>2. QED  BY ONLY <4>2, <5>1
      <4>3. QED  BY <2>2, <4>1, <4>2
    <3>3. QED  BY <3>1, <3>2, AppendFacts
  <2>4. \A p \in Heard' : p \in Heard \/ p = pushing
    BY <2>2, <2>3 DEF Heard
  <2>5. Present' \subseteq Present
    BY <2>1, <2>4 DEF Present
  <2>6. QED  BY <1>1, <1>3, <2>1, <2>3, <2>4, <2>5 DEF BufferInv
<1>5. CASE dataOutput \/ missingPacketsManager
  <2>1. pushing' = pushing /\ (pushing # NoPacket => packets' = packets)
    BY <1>5 DEF dataOutput, missingPacketsManager, Buffer!popPacket, Buffer!popNothing,
                Buffer!takeMissing
  <2>2. packets' = packets \/ (packets # <<>> /\ packets' = Tail(packets))
    BY <1>5 DEF dataOutput, missingPacketsManager, Buffer!popPacket, Buffer!popNothing,
                Buffer!takeMissing, Buffer!dropPacket
  <2>3. /\ packets' \in Seq(Arrivals \cup {Missing})
        /\ \A i \in DOMAIN packets' : \E j \in DOMAIN packets : packets'[i] = packets[j]
    <3>1. packets \in Seq(Arrivals \cup {Missing})
      BY <1>1 DEF BufferInv
    <3>2. QED  BY <2>2, <3>1, TailFacts
  <2>4. \A p \in Heard' : p \in Heard
    BY <2>3 DEF Heard
  <2>5. Present' \subseteq Present
    BY <2>1, <2>4 DEF Present
  <2>6. QED  BY <1>1, <1>3, <2>1, <2>3, <2>4, <2>5 DEF BufferInv
<1>6. QED  BY <1>4, <1>5

\* LEMMA.  A change of channel clears the flag, so the buffer is the old station's, and nobody's.
LEMMA ChangeStep ==
  ASSUME IInv, NoBlankSent, NEW s \in Stations, changeChannel(s)
  PROVE  BufferInv'
<1>1. /\ UNCHANGED <<packets, pushing, session_id, session_psize, settings, air>>
      /\ initiated' = FALSE /\ pushing = NoPacket
  BY DEF changeChannel, bufferVars
<1>2. \A p : Came(p) => Came(p)'
  BY <1>1 DEF Came
<1>3. QED  BY <1>1, <1>2 DEF IInv, BufferInv, Heard, Present, OnePort

\* THEOREM.  What is in the air and in the buffer, until a blank packet is sent.
THEOREM DeliveryInvariant == TransmissionSpec => []IInv
<1>1. ASSUME IInv, [TransmissionNext]_transmissionVars
      PROVE  IInv'
  <2>1. CASE \E s \in Stations : streamer(s) \/ resend_packets(s) \/ restart(s)
    BY <1>1, <2>1, StationSteps
  <2>2. ASSUME NEW s \in Stations, changeChannel(s)
        PROVE  IInv'
    <3>1. UNCHANGED <<stationVars, settings, air>> /\ tuned' \in Stations
      BY <2>2 DEF changeChannel
    <3>2. QED  BY <1>1, <2>2, <3>1, ChangeStep, Elsewhere
  <2>3. ASSUME NEW d \in air, dataListener(d)
        PROVE  IInv'
    <3>1. UNCHANGED <<stationVars, settings, air>> /\ tuned' \in Stations
      BY <1>1, <2>3 DEF dataListener, IInv, StationsInv
    <3>2. QED  BY <1>1, <2>3, <3>1, ListenerStep, Elsewhere
  <2>4. CASE pushGoesOn \/ dataOutput \/ missingPacketsManager
    <3>1. UNCHANGED <<stationVars, settings, air>> /\ tuned' \in Stations
      BY <1>1, <2>4 DEF pushGoesOn, dataOutput, missingPacketsManager, IInv, StationsInv
    <3>2. QED  BY <1>1, <2>4, <3>1, BufferSteps, Elsewhere
  <2>5. CASE UNCHANGED transmissionVars
    <3>1. UNCHANGED <<packets, pushing, session_id, session_psize, initiated, tuned, stationVars,
                      settings, air>>
      BY <2>5 DEF transmissionVars, receiverVars, bufferVars
    <3>2. (\A p : Came(p) => Came(p)') /\ Heard' = Heard /\ (OnePort => OnePort')
      BY <3>1 DEF Came, Heard, Present, OnePort
    <3>3. NoBlankSent => BufferInv'
      BY <1>1, <3>1, <3>2 DEF IInv, BufferInv
    <3>4. QED  BY <1>1, <3>1, <3>3, Elsewhere DEF IInv, StationsInv
  <2>6. QED  BY <1>1, <2>1, <2>2, <2>3, <2>4, <2>5 DEF TransmissionNext
<1>2. QED  BY InitInv, <1>1, PTL DEF TransmissionSpec

-------------------------------------------------------------------------------
(* What is asked for and what is sent for it                               *)

MultipleOf(n, s) == \E k \in Nat : n = k * settings.psize[s]

\* What is missing has a number after some packet's.
MissingInv ==
  /\ psize \in Nat /\ (packets # <<>> => psize > 0)
  /\ IsFiniteSet(missing_packets) /\ missing_packets \subseteq Nat \ {0}
  /\ pushing = NoPacket /\ packets # <<>> => packets[Len(packets)] # Missing
  /\ pushing # NoPacket => packets # <<>> /\ fill \in Nat \ {0}

\* And it is the number of a packet, if those that come to this port are not cut.
Alike(p) ==
  PortFits(p.from) =>
    /\ psize = settings.psize[p.from]
    /\ \A n \in missing_packets : MultipleOf(n, p.from)
    /\ pushing # NoPacket => MultipleOf(fill, p.from)

AlikeInv ==
  /\ \A d \in air : MultipleOf(d.number, d.from)
  /\ \A p \in Present : Alike(p)

SentInv ==
  \A r \in requests :
    /\ IsFiniteSet(r.missing) /\ r.missing \subseteq Nat \ {0} /\ r.missing # {}
    /\ r.text = rexmitMessage(r.missing)
    /\ \A s \in r.from : PortFits(s) => \A n \in r.missing : MultipleOf(n, s)

AskedInv == MissingInv /\ AlikeInv /\ SentInv

\* LEMMA.  At first nothing is missing.
LEMMA AskedInit == TransmissionInit => AskedInv /\ NoBlankSent
<1> SUFFICES ASSUME TransmissionInit PROVE AskedInv /\ NoBlankSent
  OBVIOUS
<1>1. /\ packets = <<>> /\ missing_packets = {} /\ psize = 0 /\ pushing = NoPacket
      /\ air = {} /\ requests = {}
  BY DEF TransmissionInit, Buffer!Init
<1>2. Present = {}
  BY <1>1 DEF Present, Heard
<1>3. QED  BY <1>1, <1>2, FS_EmptySet DEF AskedInv, MissingInv, AlikeInv, SentInv, NoBlankSent

\* LEMMA.  Nobody asks for 0, so no station sends the blank packet of its store.
LEMMA NoBlankStep ==
  ASSUME IInv, NoBlankSent, AskedInv, NEW s \in Stations,
         streamer(s) \/ resend_packets(s) \/ restart(s)
  PROVE  /\ NoBlankSent'
         /\ \A d \in air' : MultipleOf(d.number, d.from)
         /\ UNCHANGED <<receiverVars, settings, requests>>
<1>1. UNCHANGED <<receiverVars, settings, requests>>
  BY DEF streamer, resend_packets, restart
<1>2. settings.psize[s] \in Nat \ {0} /\ produced[s] \in Nat
  BY SettingsAssumption DEF IInv, StationsInv
<1>3. \/ air' = air
      \/ \E to \in {"group", "receiver"}, n \in Nat : air' = air \cup {Datagram(s, n, to)}
  <2>1. CASE streamer(s)
    BY <1>2, <2>1 DEF streamer
  <2>2. CASE restart(s)
    BY <2>2 DEF restart
  <2>3. CASE resend_packets(s)
    <3>1. PICK r \in requests :
            \/ \E n \in 0 .. produced[s] - 1 : air' = air \cup {Datagram(s, n, "receiver")}
            \/ 0 \in orders(s, r)
      BY <2>3 DEF resend_packets
    <3>2. 0 \notin orders(s, r)
      <4>1. /\ IsFiniteSet(r.missing) /\ r.missing \subseteq Nat \ {0} /\ r.missing # {}
            /\ r.text = rexmitMessage(r.missing)
        BY DEF AskedInv, SentInv
      <4>2. QED  BY <1>2, <4>1, OrdersFacts DEF orders
    <3>3. \A n \in 0 .. produced[s] - 1 : n \in Nat
      BY <1>2
    <3>4. QED  BY <3>1, <3>2, <3>3
  <2>4. QED  BY <2>1, <2>2, <2>3
<1>4. ASSUME NEW to, NEW n \in Nat, NEW d, d = Datagram(s, n, to)
      PROVE  d.bytes.size > 0 /\ MultipleOf(d.number, d.from)
  <2>1. d.bytes.size = settings.psize[s] /\ d.number = n * settings.psize[s] /\ d.from = s
    BY <1>4 DEF Datagram, toBytes
  <2>2. QED  BY <1>2, <2>1 DEF MultipleOf
<1>5. \A d \in air : d.bytes.size > 0 /\ MultipleOf(d.number, d.from)
  BY DEF NoBlankSent, AskedInv, AlikeInv
<1>6. \A d \in air' : d.bytes.size > 0 /\ MultipleOf(d.number, d.from)
  BY <1>3, <1>4, <1>5
<1>7. QED  BY <1>1, <1>6 DEF NoBlankSent

\* LEMMA.  What is only of the receiver and of the numbers stays when neither changes.
LEMMA AskedStays ==
  ASSUME AskedInv, UNCHANGED <<bufferVars, settings, requests>>,
         \A d \in air' : MultipleOf(d.number, d.from)
  PROVE  AskedInv'
<1>1. UNCHANGED <<packets, missing_packets, psize, pushing, fill>>
  BY DEF bufferVars
<1>2. \A n, s : MultipleOf(n, s)' <=> MultipleOf(n, s)
  BY DEF MultipleOf
<1>3. Present' = Present /\ \A s : PortFits(s)' <=> PortFits(s)
  BY <1>1 DEF Present, Heard, PortFits, Fits
<1>4. MissingInv'
  BY <1>1 DEF AskedInv, MissingInv
<1>5. AlikeInv'
  <2>1. \A p : Alike(p)' <=> Alike(p)
    BY <1>1, <1>2, <1>3 DEF Alike
  <2>2. QED  BY <1>2, <1>3, <2>1 DEF AskedInv, AlikeInv
<1>6. SentInv'
  BY <1>1, <1>2, <1>3 DEF AskedInv, SentInv
<1>7. QED  BY <1>4, <1>5, <1>6 DEF AskedInv

\* LEMMA.  A datagram has a packet of its station, with a number of that station's.
LEMMA ReadMultiple ==
  ASSUME IInv, NoBlankSent, AskedInv, NEW d \in air
  PROVE  /\ Read(d) \in Arrivals /\ Read(d).size > 0 /\ Read(d).from = d.from
         /\ d.from \in Stations
         /\ Fits(d.from) => Read(d).size = settings.psize[d.from]
         /\ MultipleOf(Read(d).fbn, d.from)
<1>1. StationsInv /\ Carries(d)
  BY DEF IInv, AirInv
<1>2. /\ Read(d) = [fbn |-> d.number,
                    size |-> Least(settings.psize[d.from], MAX_DATAGRAM_SIZE - PacketHeader),
                    session |-> second[d.from][d.run], from |-> d.from, run |-> d.run,
                    number |-> d.number]
      /\ Read(d) \in Arrivals /\ Read(d).size > 0
  BY <1>1, ReadFacts
<1>3. settings.psize[d.from] \in Nat /\ d.from \in Stations
  BY <1>1, SettingsAssumption DEF Carries, StationsInv
<1>4. Fits(d.from) => Read(d).size = settings.psize[d.from]
  BY <1>2, <1>3, MessagesAssumption DEF Fits, Least, PacketHeader
<1>5. QED  BY <1>2, <1>3, <1>4 DEF AskedInv, AlikeInv

\* LEMMA.  After a number comes the next.
LEMMA NextMultipleOf ==
  ASSUME NEW n, NEW s, MultipleOf(n, s), settings.psize[s] \in Nat
  PROVE  MultipleOf(n + settings.psize[s], s)
<1>1. PICK k \in Nat : n = k * settings.psize[s]
  BY DEF MultipleOf
<1>2. n + settings.psize[s] = (k + 1) * settings.psize[s] /\ k + 1 \in Nat
  BY <1>1
<1>3. QED  BY <1>2 DEF MultipleOf

\* LEMMA.  Two packets that are read with one size and come to one port have the same numbers,
\* if the packets that come to it are not cut: though the stations may be two.
LEMMA SameNumbers ==
  ASSUME IInv, NoBlankSent, AskedInv, NEW d \in air, NEW e \in air,
         Read(d).size = Read(e).size,
         settings.port[Read(d).from] = settings.port[Read(e).from]
  PROVE  /\ PortFits(Read(d).from) <=> PortFits(Read(e).from)
         /\ PortFits(Read(d).from) =>
              /\ settings.psize[Read(d).from] = settings.psize[Read(e).from]
              /\ \A n : MultipleOf(n, Read(d).from) <=> MultipleOf(n, Read(e).from)
<1>1. /\ Read(d).from = d.from /\ d.from \in Stations
      /\ Fits(d.from) => Read(d).size = settings.psize[d.from]
  BY ReadMultiple
<1>2. /\ Read(e).from = e.from /\ e.from \in Stations
      /\ Fits(e.from) => Read(e).size = settings.psize[e.from]
  BY ReadMultiple
<1>3. PortFits(d.from) <=> PortFits(e.from)
  BY <1>1, <1>2 DEF PortFits
<1>4. PortFits(d.from) => Fits(d.from) /\ Fits(e.from)
  BY <1>1, <1>2 DEF PortFits
<1>5. QED  BY <1>1, <1>2, <1>3, <1>4 DEF MultipleOf

\* LEMMA.  The numbers of a buffer stay as they are when a datagram is heard, or are those of
\* a new one.
LEMMA AskedListener ==
  ASSUME IInv, NoBlankSent, AskedInv, NEW d \in air, dataListener(d)
  PROVE  AskedInv'
<1>1. /\ pushing = NoPacket /\ UNCHANGED <<settings, air, requests>>
  BY DEF dataListener
<1>2. PICK p : p = Read(d)
  OBVIOUS
<1>3. /\ p \in Arrivals /\ p.size > 0 /\ p.from \in Stations
      /\ Fits(p.from) => p.size = settings.psize[p.from]
      /\ MultipleOf(p.fbn, p.from)
  BY <1>2, ReadMultiple
<1>4. p.fbn \in Nat /\ p.size \in Nat
  BY <1>3 DEF Arrivals
<1>5. /\ \A n, s : MultipleOf(n, s)' <=> MultipleOf(n, s)
      /\ \A s : PortFits(s)' <=> PortFits(s)
  BY <1>1 DEF MultipleOf, PortFits, Fits
<1>6. SentInv' /\ \A e \in air' : MultipleOf(e.number, e.from)'
  BY <1>1, <1>5 DEF AskedInv, AlikeInv, SentInv
<1>7. p # Missing /\ p # NoPacket
  BY <1>3, MarkersAssumption
<1>8. CASE resets(p) /\ resetSession(p)
  <2>1. /\ packets' = <<p>> /\ psize' = p.size /\ missing_packets' = {}
        /\ pushing' = NoPacket
    BY <1>1, <1>3, <1>8 DEF resetSession, Buffer!AudioBuffer
  <2>2. /\ DOMAIN packets' = {1} /\ packets'[1] = p /\ Len(packets') = 1
    BY <2>1
  <2>3. Present' = {p}
    BY <1>7, <2>1, <2>2 DEF Present, Heard
  <2>4. MissingInv'
    BY <1>3, <1>4, <1>7, <2>1, <2>2, FS_EmptySet DEF MissingInv
  <2>5. AlikeInv'
    <3>1. PortFits(p.from) => Fits(p.from)
      BY <1>3 DEF PortFits
    <3>2. psize' = p.size /\ missing_packets' = {} /\ pushing' = NoPacket
      BY <2>1
    <3>3. Alike(p)'
      BY <1>1, <1>3, <1>5, <3>1, <3>2 DEF Alike
    <3>4. QED  BY <1>6, <2>3, <3>3 DEF AlikeInv
  <2>6. QED  BY <1>6, <2>4, <2>5 DEF AskedInv
<1>9. CASE initiated /\ p.session = session_id /\ putPacket(p)
  <2>1. UNCHANGED <<packets, psize>>
    BY <1>9 DEF putPacket, Buffer!push, Buffer!putMissing, Buffer!pushOnEmpty, Buffer!pushOld,
                Buffer!pushNew, bufferVars, Buffer!bufferVars
  <2>2. \/ pushing' = pushing /\ fill' = fill /\ missing_packets' = missing_packets
        \/ pushing' = pushing /\ fill' = fill /\ missing_packets' = missing_packets \ {p.fbn}
        \/ /\ pushing' = p /\ packets # <<>> /\ fill' = packets[Len(packets)].fbn + psize
           /\ missing_packets' = missing_packets /\ p.size = session_psize
    BY <1>9 DEF putPacket, Buffer!push, Buffer!putMissing, Buffer!pushOnEmpty, Buffer!pushOld,
                Buffer!pushNew, bufferVars, Buffer!bufferVars, Buffer!firstMissing, Buffer!back
  <2>3. missing_packets' \subseteq missing_packets /\ IsFiniteSet(missing_packets')
    <3>1. IsFiniteSet(missing_packets)
      BY DEF AskedInv, MissingInv
    <3>2. IsFiniteSet(missing_packets \ {p.fbn})
      BY <3>1, FS_RemoveElement
    <3>3. QED  BY <2>2, <3>1, <3>2
  <2>4. Heard' = Heard
    BY <2>1 DEF Heard
  <2>5. CASE pushing' = pushing /\ fill' = fill
    <3>1. Present' = Present
      BY <2>4, <2>5 DEF Present
    <3>2. MissingInv'
      BY <2>1, <2>3, <2>5 DEF AskedInv, MissingInv
    <3>3. AlikeInv'
      <4>1. \A q : Alike(q) => Alike(q)'
        BY <1>1, <1>5, <2>1, <2>3, <2>5 DEF Alike
      <4>2. QED  BY <1>6, <3>1, <4>1 DEF AskedInv, AlikeInv
    <3>4. QED  BY <1>6, <3>2, <3>3 DEF AskedInv
  <2>6. CASE /\ pushing' = p /\ packets # <<>> /\ fill' = packets[Len(packets)].fbn + psize
             /\ p.size = session_psize
    <3> DEFINE last == packets[Len(packets)]
    <3>1. last \in Heard /\ last # NoPacket /\ last \in Arrivals
      <4>1. packets \in Seq(Arrivals \cup {Missing}) /\ last # Missing
        BY <1>1, <2>6 DEF IInv, BufferInv, AskedInv, MissingInv
      <4>2. Len(packets) \in DOMAIN packets
        BY <2>6, <4>1
      <4>3. last \in Arrivals /\ last \in Heard
        BY <4>1, <4>2 DEF Heard
      <4>4. QED  BY <4>3, MarkersAssumption
    <3>2. ASSUME NEW q \in Heard
          PROVE  \E e \in air : /\ q = Read(e) /\ p.size = q.size
                                /\ settings.port[p.from] = settings.port[q.from]
      <4>1. settings.port[p.from] = settings.port[tuned]
        BY <1>2, <1>3, ReadMultiple DEF dataListener, Hears
      <4>2. /\ q.size = session_psize /\ settings.port[q.from] = settings.port[tuned]
            /\ \E e \in air : q = Read(e)
        BY <1>9 DEF IInv, BufferInv, Came
      <4>3. QED  BY <2>6, <4>1, <4>2
    <3>3. last.fbn \in Nat /\ last \in Present /\ MultipleOf(last.fbn, last.from)
      <4>1. last.fbn \in Nat /\ last \in Present
        BY <3>1 DEF Arrivals, Present
      <4>2. PICK e \in air : last = Read(e)
        BY <3>1 DEF IInv, BufferInv, Came
      <4>3. MultipleOf(last.fbn, last.from)
        BY <4>2, ReadMultiple
      <4>4. QED  BY <4>1, <4>3
    <3>4. psize \in Nat /\ psize > 0
      BY <2>6 DEF AskedInv, MissingInv
    <3> HIDE DEF last
    <3>5. fill' \in Nat \ {0}
      BY <2>6, <3>3, <3>4 DEF last
    <3>6. MissingInv'
      BY <1>7, <2>1, <2>3, <2>6, <3>5 DEF AskedInv, MissingInv
    <3>7. PortFits(last.from) => psize = settings.psize[last.from] /\ MultipleOf(fill', last.from)
      <4>1. SUFFICES ASSUME PortFits(last.from)
                     PROVE  psize = settings.psize[last.from] /\ MultipleOf(fill', last.from)
        OBVIOUS
      <4>2. psize = settings.psize[last.from]
        BY <3>3, <4>1 DEF AskedInv, AlikeInv, Alike
      <4>3. MultipleOf(last.fbn + settings.psize[last.from], last.from)
        BY <3>3, <3>4, <4>2, NextMultipleOf
      <4>4. QED  BY <2>6, <4>2, <4>3 DEF last
    <3>8. AlikeInv'
      <4>1. \A q \in Present' : q \in Present \/ q = p
        BY <2>4, <2>6 DEF Present
      <4>2. ASSUME NEW q \in Present'
            PROVE  /\ PortFits(q.from) => PortFits(last.from)
                   /\ PortFits(q.from) =>
                        /\ settings.psize[q.from] = settings.psize[last.from]
                        /\ \A n : MultipleOf(n, q.from) <=> MultipleOf(n, last.from)
        <5>1. PICK e \in air : /\ last = Read(e) /\ p.size = last.size
                               /\ settings.port[p.from] = settings.port[last.from]
          BY <3>1, <3>2
        <5>2. PICK f \in air : /\ q = Read(f) /\ p.size = q.size
                               /\ settings.port[p.from] = settings.port[q.from]
          <6>1. CASE q = p
            BY <1>2, <6>1
          <6>2. CASE q \in Present
            <7>1. q \in Heard
              BY <1>1, <6>2 DEF Present
            <7>2. QED  BY <3>2, <7>1
          <6>3. QED  BY <4>1, <6>1, <6>2
        <5>3. QED  BY <5>1, <5>2, SameNumbers
      <4>3. PortFits(last.from) => \A n \in missing_packets' : MultipleOf(n, last.from)
        BY <2>3, <3>3 DEF AskedInv, AlikeInv, Alike
      <4>4. ASSUME NEW q \in Present'
            PROVE  Alike(q)'
        BY <1>1, <1>5, <2>1, <3>7, <4>2, <4>3 DEF Alike
      <4>5. QED  BY <1>6, <4>4 DEF AlikeInv
    <3>9. QED  BY <1>6, <3>6, <3>8 DEF AskedInv
  <2>7. QED  BY <2>2, <2>5, <2>6
<1>10. QED  BY <1>2, <1>8, <1>9 DEF dataListener, resets

\* LEMMA.  The last of a list, when something is appended and when the front leaves.
LEMMA LastFacts ==
  ASSUME NEW S, NEW q \in Seq(S)
  PROVE  /\ \A e \in S : Append(q, e)[Len(Append(q, e))] = e
         /\ Tail(q) # <<>> /\ q # <<>> => Tail(q)[Len(Tail(q))] = q[Len(q)]
<1>1. ASSUME NEW e \in S PROVE Append(q, e)[Len(Append(q, e))] = e
  <2>1. Len(Append(q, e)) = Len(q) + 1 /\ Append(q, e)[Len(q) + 1] = e
    OBVIOUS
  <2>2. QED  BY <2>1
<1>2. ASSUME Tail(q) # <<>>, q # <<>> PROVE Tail(q)[Len(Tail(q))] = q[Len(q)]
  <2>1. /\ Len(q) \in Nat /\ Len(q) > 0 /\ Len(Tail(q)) = Len(q) - 1 /\ Tail(q) \in Seq(S)
        /\ \A i \in 1 .. Len(q) - 1 : Tail(q)[i] = q[i + 1]
    BY <1>2
  <2>2. Len(Tail(q)) # 0
    BY <1>2, <2>1
  <2>3. Len(q) - 1 \in 1 .. Len(q) - 1 /\ (Len(q) - 1) + 1 = Len(q)
    BY <2>1, <2>2
  <2>4. QED  BY <2>1, <2>3
<1>3. QED  BY <1>1, <1>2

\* LEMMA.  push puts a packet, or its lack, at the back of the list, which may lose its front.
LEMMA PushedList ==
  ASSUME IInv, NoBlankSent, NEW slot \in {Missing, pushing}, pushing # NoPacket,
         packets' = Append(packets, slot) \/ packets' = Append(Tail(packets), slot)
  PROVE  /\ packets' # <<>> /\ packets'[Len(packets')] = slot
         /\ Heard' \subseteq Present
<1> DEFINE S == Arrivals \cup {Missing}
<1>1. /\ packets \in Seq(S) /\ packets # <<>> /\ pushing \in Arrivals /\ slot \in S
      /\ \A p \in Heard : Came(p)
  BY DEF IInv, BufferInv
<1>2. Heard \subseteq Arrivals
  BY <1>1 DEF Heard
<1>3. Heard \cup {pushing} \subseteq Present
  BY <1>1, <1>2, MarkersAssumption DEF Present
<1> HIDE DEF S
<1>4. PICK q \in Seq(S) :
        /\ packets' = Append(q, slot)
        /\ \A i \in DOMAIN q : \E j \in DOMAIN packets : q[i] = packets[j]
  <2>1. CASE packets' = Append(packets, slot)
    BY ONLY <1>1, <2>1
  <2>2. CASE packets' = Append(Tail(packets), slot)
    <3>1. /\ Tail(packets) \in Seq(S)
          /\ \A i \in DOMAIN Tail(packets) :
               \E j \in DOMAIN packets : Tail(packets)[i] = packets[j]
      BY <1>1, TailFacts
    <3>2. QED  BY ONLY <2>2, <3>1
  <2>3. QED  BY <2>1, <2>2
<1>5. /\ packets' # <<>>
      /\ \A i \in DOMAIN packets' :
           packets'[i] = slot \/ (i \in DOMAIN q /\ packets'[i] = q[i])
  BY <1>1, <1>4, AppendFacts
<1>6. packets'[Len(packets')] = slot
  BY <1>1, <1>4, LastFacts
<1>7. \A i \in DOMAIN packets' :
        packets'[i] = slot \/ \E j \in DOMAIN packets : packets'[i] = packets[j]
  BY <1>4, <1>5
<1>8. Heard' = {packets'[i] : i \in {j \in DOMAIN packets' : packets'[j] # Missing}}
  BY DEF Heard
<1>9. ASSUME NEW i \in DOMAIN packets', packets'[i] # Missing
      PROVE  packets'[i] \in Heard \cup {pushing}
  <2>1. CASE packets'[i] = slot
    BY <1>9, <2>1
  <2>2. CASE \E j \in DOMAIN packets : packets'[i] = packets[j]
    BY <1>9, <2>2 DEF Heard
  <2>3. QED  BY <1>7, <1>9, <2>1, <2>2
<1>10. QED  BY <1>3, <1>5, <1>6, <1>8, <1>9

\* LEMMA.  A number that push finds missing is one of the packet it pushes, if that was not cut.
LEMMA AskedPush ==
  ASSUME IInv, NoBlankSent, AskedInv, pushGoesOn
  PROVE  AskedInv'
<1>1. /\ pushing # NoPacket /\ UNCHANGED <<psize, settings, air, requests>>
  BY DEF pushGoesOn, Buffer!fillMissing, Buffer!insertPushed
<1>2. packets # <<>> /\ psize \in Nat \ {0} /\ fill \in Nat \ {0} /\ pushing \in Arrivals
  BY <1>1 DEF AskedInv, MissingInv, IInv, BufferInv
<1>3. /\ \A n, s : MultipleOf(n, s)' <=> MultipleOf(n, s)
      /\ \A s : PortFits(s)' <=> PortFits(s)
  BY <1>1 DEF MultipleOf, PortFits, Fits
<1>4. SentInv' /\ \A d \in air' : MultipleOf(d.number, d.from)'
  BY <1>1, <1>3 DEF AskedInv, AlikeInv, SentInv
<1>5. IsFiniteSet(missing_packets) /\ missing_packets \subseteq Nat \ {0}
  BY DEF AskedInv, MissingInv
<1>6. IsFiniteSet(missing_packets \cup {fill})
  BY <1>5, FS_AddElement
<1>7. CASE Buffer!fillMissing
  <2>1. /\ missing_packets' \subseteq missing_packets \cup {fill}
        /\ fill' = fill + psize /\ pushing' = pushing
        /\ packets' = Append(packets, Missing) \/ packets' = Append(Tail(packets), Missing)
    BY <1>7 DEF Buffer!fillMissing, Buffer!insertPacket
  <2>2. packets' # <<>> /\ Heard' \subseteq Present
    BY <1>1, <2>1, PushedList
  <2>3. Present' \subseteq Present
    BY <1>1, <2>1, <2>2 DEF Present
  <2>4. IsFiniteSet(missing_packets')
    BY <1>6, <2>1, FS_Subset
  <2>5. fill' \in Nat \ {0} /\ missing_packets' \subseteq Nat \ {0}
    BY <1>2, <1>5, <2>1
  <2>6. MissingInv'
    BY <1>1, <1>2, <2>1, <2>2, <2>4, <2>5 DEF MissingInv
  <2>7. ASSUME NEW q \in Present, PortFits(q.from)
        PROVE  /\ psize = settings.psize[q.from]
               /\ \A n \in missing_packets' : MultipleOf(n, q.from)
               /\ MultipleOf(fill', q.from)
    <3>1. /\ psize = settings.psize[q.from] /\ MultipleOf(fill, q.from)
          /\ \A n \in missing_packets : MultipleOf(n, q.from)
      BY <1>1, <2>7 DEF AskedInv, AlikeInv, Alike
    <3>2. MultipleOf(fill + settings.psize[q.from], q.from)
      BY <1>2, <3>1, NextMultipleOf
    <3>3. QED  BY <2>1, <3>1, <3>2
  <2>8. ASSUME NEW q \in Present PROVE Alike(q)'
    BY <1>1, <1>3, <2>7 DEF Alike
  <2>9. AlikeInv'
    BY <1>4, <2>3, <2>8 DEF AlikeInv
  <2>10. QED  BY <1>4, <2>6, <2>9 DEF AskedInv
<1>8. CASE Buffer!insertPushed
  <2>1. /\ missing_packets' \subseteq missing_packets /\ pushing' = NoPacket
        /\ packets' = Append(packets, pushing) \/ packets' = Append(Tail(packets), pushing)
    BY <1>8 DEF Buffer!insertPushed, Buffer!insertPacket
  <2>2. packets' # <<>> /\ packets'[Len(packets')] = pushing /\ Heard' \subseteq Present
    BY <1>1, <2>1, PushedList
  <2>3. Present' \subseteq Present
    BY <2>1, <2>2 DEF Present
  <2>4. IsFiniteSet(missing_packets')
    BY <1>5, <2>1, FS_Subset
  <2>5. pushing # Missing
    BY <1>2, MarkersAssumption
  <2>6. MissingInv'
    BY <1>1, <1>2, <1>5, <2>1, <2>2, <2>4, <2>5 DEF MissingInv
  <2>7. ASSUME NEW q \in Present PROVE Alike(q)'
    <3>1. Alike(q)
      BY DEF AskedInv, AlikeInv
    <3>2. QED  BY <1>1, <1>3, <2>1, <3>1 DEF Alike
  <2>8. AlikeInv'
    BY <1>4, <2>3, <2>7 DEF AlikeInv
  <2>9. QED  BY <1>4, <2>6, <2>8 DEF AskedInv
<1>9. QED  BY <1>7, <1>8 DEF pushGoesOn

\* LEMMA.  What is played leaves the list at the front.
LEMMA AskedOutput ==
  ASSUME IInv, NoBlankSent, AskedInv, dataOutput
  PROVE  AskedInv'
<1>1. /\ pushing = NoPacket /\ UNCHANGED <<psize, pushing, fill, settings, air, requests>>
      /\ missing_packets' \subseteq missing_packets
      /\ packets' = packets \/ (packets # <<>> /\ packets' = Tail(packets))
  BY DEF dataOutput, Buffer!popPacket, Buffer!popNothing, Buffer!dropPacket
<1>2. /\ \A n, s : MultipleOf(n, s)' <=> MultipleOf(n, s)
      /\ \A s : PortFits(s)' <=> PortFits(s)
  BY <1>1 DEF MultipleOf, PortFits, Fits
<1>3. SentInv' /\ \A d \in air' : MultipleOf(d.number, d.from)'
  BY <1>1, <1>2 DEF AskedInv, AlikeInv, SentInv
<1>4. packets \in Seq(Arrivals \cup {Missing})
  BY DEF IInv, BufferInv
<1>5. packets' # <<>> => packets # <<>> /\ packets'[Len(packets')] = packets[Len(packets)]
  BY <1>1, <1>4, LastFacts
<1>6. \A i \in DOMAIN packets' : \E j \in DOMAIN packets : packets'[i] = packets[j]
  BY <1>1, <1>4, TailFacts
<1>7. Present' \subseteq Present
  <2>1. Heard' \subseteq Heard
    BY <1>6 DEF Heard
  <2>2. QED  BY <1>1, <2>1 DEF Present
<1>8. MissingInv'
  <2>1. IsFiniteSet(missing_packets')
    BY <1>1, FS_Subset DEF AskedInv, MissingInv
  <2>2. QED  BY <1>1, <1>5, <2>1 DEF AskedInv, MissingInv
<1>9. ASSUME NEW q \in Present PROVE Alike(q)'
  <2>1. Alike(q)
    BY DEF AskedInv, AlikeInv
  <2>2. QED  BY <1>1, <1>2, <2>1 DEF Alike
<1>10. AlikeInv'
  BY <1>3, <1>7, <1>9 DEF AlikeInv
<1>11. QED  BY <1>3, <1>8, <1>10 DEF AskedInv

\* LEMMA.  A request is for what is missing of those whose packets are there.
LEMMA AskedRequest ==
  ASSUME IInv, NoBlankSent, AskedInv, missingPacketsManager
  PROVE  AskedInv'
<1>1. /\ missing_packets # {} /\ missing_packets' = {}
      /\ UNCHANGED <<packets, psize, pushing, fill, settings, air>>
      /\ requests' = requests \cup
           {[text |-> rexmitMessage(missing_packets),
             missing |-> missing_packets, from |-> {p.from : p \in Heard}]}
  BY DEF missingPacketsManager, Buffer!takeMissing
<1>2. /\ \A n, s : MultipleOf(n, s)' <=> MultipleOf(n, s)
      /\ \A s : PortFits(s)' <=> PortFits(s)
      /\ Present' = Present
  BY <1>1 DEF MultipleOf, PortFits, Fits, Present, Heard
<1>3. MissingInv'
  BY <1>1, FS_EmptySet DEF AskedInv, MissingInv
<1>4. AlikeInv'
  <2>1. ASSUME NEW q \in Present PROVE Alike(q)'
    <3>1. Alike(q)
      BY DEF AskedInv, AlikeInv
    <3>2. QED  BY <1>1, <1>2, <3>1 DEF Alike
  <2>2. QED  BY <1>1, <1>2, <2>1 DEF AskedInv, AlikeInv
<1>5. SentInv'
  <2>1. IsFiniteSet(missing_packets) /\ missing_packets \subseteq Nat \ {0}
    BY DEF AskedInv, MissingInv
  <2>2. ASSUME NEW p \in Heard, PortFits(p.from)
        PROVE  \A n \in missing_packets : MultipleOf(n, p.from)
    <3>1. packets \in Seq(Arrivals \cup {Missing})
      BY DEF IInv, BufferInv
    <3>2. p \in Arrivals
      BY <3>1 DEF Heard
    <3>3. p \in Present
      BY <3>2, MarkersAssumption DEF Present
    <3>4. QED  BY <2>2, <3>3 DEF AskedInv, AlikeInv, Alike
  <2>3. ASSUME NEW r, r = [text |-> rexmitMessage(missing_packets),
                           missing |-> missing_packets, from |-> {p.from : p \in Heard}]
        PROVE  /\ IsFiniteSet(r.missing) /\ r.missing \subseteq Nat \ {0} /\ r.missing # {}
               /\ r.text = rexmitMessage(r.missing)
               /\ \A s \in r.from : PortFits(s) => \A n \in r.missing : MultipleOf(n, s)
    <3>1. /\ r.missing = missing_packets /\ r.from = {p.from : p \in Heard}
          /\ r.text = rexmitMessage(missing_packets)
      BY <2>3
    <3>2. QED  BY <1>1, <2>1, <2>2, <3>1
  <2>4. \A r \in requests :
          /\ IsFiniteSet(r.missing) /\ r.missing \subseteq Nat \ {0} /\ r.missing # {}
          /\ r.text = rexmitMessage(r.missing)
          /\ \A s \in r.from : PortFits(s) => \A n \in r.missing : MultipleOf(n, s)
    BY DEF AskedInv, SentInv
  <2>5. \A r \in requests' :
          /\ IsFiniteSet(r.missing) /\ r.missing \subseteq Nat \ {0} /\ r.missing # {}
          /\ r.text = rexmitMessage(r.missing)
          /\ \A s \in r.from : PortFits(s) => \A n \in r.missing : MultipleOf(n, s)
    BY <1>1, <2>3, <2>4
  <2>6. QED  BY <1>2, <2>5 DEF SentInv
<1>6. QED  BY <1>3, <1>4, <1>5 DEF AskedInv

\* LEMMA.  Whatever is done next, no blank packet is sent and requests stay what they are.
LEMMA AskedStep ==
  ASSUME IInv, NoBlankSent, AskedInv, [TransmissionNext]_transmissionVars
  PROVE  NoBlankSent' /\ AskedInv'
<1>1. ASSUME UNCHANGED <<settings, air>>
      PROVE  NoBlankSent' /\ \A d \in air' : MultipleOf(d.number, d.from)
  BY <1>1 DEF NoBlankSent, AskedInv, AlikeInv
<1>2. ASSUME NEW s \in Stations, streamer(s) \/ resend_packets(s) \/ restart(s)
      PROVE  NoBlankSent' /\ AskedInv'
  <2>1. /\ NoBlankSent' /\ UNCHANGED <<bufferVars, settings, requests>>
        /\ \A d \in air' : MultipleOf(d.number, d.from)
    BY <1>2, NoBlankStep DEF receiverVars
  <2>2. QED  BY <2>1, AskedStays
<1>3. ASSUME NEW s \in Stations, changeChannel(s)
      PROVE  NoBlankSent' /\ AskedInv'
  <2>1. UNCHANGED <<bufferVars, settings, air, requests>>
    BY <1>3 DEF changeChannel
  <2>2. QED  BY <1>1, <2>1, AskedStays
<1>4. ASSUME NEW d \in air, dataListener(d)
      PROVE  NoBlankSent' /\ AskedInv'
  <2>1. UNCHANGED <<settings, air>>
    BY <1>4 DEF dataListener
  <2>2. QED  BY <1>1, <1>4, <2>1, AskedListener
<1>5. CASE pushGoesOn \/ dataOutput \/ missingPacketsManager
  <2>1. UNCHANGED <<settings, air>>
    BY <1>5 DEF pushGoesOn, dataOutput, missingPacketsManager
  <2>2. QED  BY <1>1, <1>5, <2>1, AskedPush, AskedOutput, AskedRequest
<1>6. CASE UNCHANGED transmissionVars
  <2>1. UNCHANGED <<bufferVars, settings, air, requests>>
    BY <1>6 DEF transmissionVars, receiverVars
  <2>2. QED  BY <1>1, <2>1, AskedStays
<1>7. QED  BY <1>2, <1>3, <1>4, <1>5, <1>6 DEF TransmissionNext

\* LEMMA.  So it is in every state.
LEMMA AskedAlways == TransmissionSpec => [](IInv /\ NoBlankSent /\ AskedInv)
<1>1. TransmissionInit => NoBlankSent /\ AskedInv
  BY AskedInit
<1>2. IInv /\ NoBlankSent /\ AskedInv /\ [TransmissionNext]_transmissionVars
        => NoBlankSent' /\ AskedInv'
  BY AskedStep
<1>3. QED  BY <1>1, <1>2, DeliveryInvariant, PTL DEF TransmissionSpec

\* THEOREM.  No station, just started or not, sends the blank packet of its store: number 0
\* is never missing, no piece of a request, cut or not, is read as 0, and so nobody orders it.
THEOREM NobodySendsBlank == TransmissionSpec => []NoBlankSent
  BY AskedAlways, PTL

\* THEOREM.  However the network loses, repeats and delays what the stations send and send
\* again, and whichever station is started anew, in whatever second, the buffer has packets
\* under their numbers, of stations that share the port and the second, and of the station it
\* is tuned to if it has a port of its own.
THEOREM HeardFromTheTunedStation == TransmissionSpec => []HeardIsTuned
<1>1. ASSUME IInv, NoBlankSent
      PROVE  HeardIsTuned
  <2>1. StationsInv /\ AirInv /\ BufferInv
    BY <1>1 DEF IInv
  <2>2. ASSUME NEW p \in Heard
        PROVE  /\ p.fbn = p.number /\ second[p.from][p.run] = session_id
               /\ p.size = session_psize
               /\ Fits(p.from) => p.size = settings.psize[p.from]
               /\ Distinct(settings.port) /\ initiated => p.from = tuned
    <3>1. Came(p)
      BY <2>1 DEF BufferInv
    <3>2. PICK d \in air : p = Read(d)
      BY <3>1 DEF Came
    <3>3. Carries(d)
      BY <2>1 DEF AirInv
    <3>4. /\ p.fbn = p.number /\ p.session = second[p.from][p.run] /\ p.from = d.from
          /\ p.size = Least(settings.psize[p.from], MAX_DATAGRAM_SIZE - PacketHeader)
      BY <2>1, <3>2, <3>3, ReadFacts
    <3>5. settings.psize[p.from] \in Nat
      BY <2>1, <3>2, <3>3, ReadFacts, SettingsAssumption DEF Carries, StationsInv
    <3>6. Fits(p.from) => p.size = settings.psize[p.from]
      BY <3>4, <3>5, MessagesAssumption DEF Fits, Least, PacketHeader
    <3>7. p.from \in Stations /\ tuned \in Stations
      BY <2>1, <3>3, <3>4 DEF Carries, StationsInv
    <3>8. QED  BY <3>1, <3>4, <3>6, <3>7 DEF Came, Distinct
  <2>3. ASSUME NEW p \in Heard, NEW q \in Heard
        PROVE  settings.port[p.from] = settings.port[q.from]
    <3>1. packets \in Seq(Arrivals \cup {Missing})
      BY <2>1 DEF BufferInv
    <3>2. p \in Arrivals /\ q \in Arrivals
      BY <3>1 DEF Heard
    <3>3. p \in Present /\ q \in Present
      BY <3>2, MarkersAssumption DEF Present
    <3>4. QED  BY <2>1, <3>3 DEF BufferInv, OnePort
  <2>4. QED  BY <2>2, <2>3 DEF HeardIsTuned
<1>2. QED  BY <1>1, AskedAlways, PTL

\* THEOREM.  Every request is for numbers of packets of those whose packets are in the buffer,
\* as long as none was cut; a station takes a whole request for these numbers, one by one as
\* they were written, and of a request that was cut it takes one other number at most.
THEOREM StationsUnderstandRequests == TransmissionSpec => []RequestsAreMet
<1>1. ASSUME IInv, AskedInv
      PROVE  RequestsAreMet
  <2> SUFFICES ASSUME NEW r \in requests, NEW s \in Stations,
                      NEW taken, taken = orders(s, r)
               PROVE  /\ Cardinality(taken \ r.missing) <= IF Whole(r) THEN 0 ELSE 1
                      /\ s \in r.from /\ PortFits(s) =>
                           /\ \A n \in r.missing : n % settings.psize[s] = 0
                           /\ Whole(r) => taken = r.missing
    BY DEF RequestsAreMet
  <2>1. settings.psize[s] \in Nat \ {0}
    BY <1>1, SettingsAssumption DEF IInv, StationsInv
  <2>2. /\ IsFiniteSet(r.missing) /\ r.missing \subseteq Nat \ {0} /\ r.missing # {}
        /\ r.text = rexmitMessage(r.missing)
        /\ s \in r.from /\ PortFits(s) => \A n \in r.missing : MultipleOf(n, s)
    BY <1>1 DEF AskedInv, SentInv
  <2>3. /\ Whole(r) => taken = {n \in r.missing : n % settings.psize[s] = 0}
        /\ Cardinality(taken \ r.missing) \in {0, 1}
        /\ Whole(r) => Cardinality(taken \ r.missing) = 0
    <3>1. taken = handle_rexmit(receiveText(r.text), settings.psize[s])
      BY DEF orders
    <3>2. PICK M, text, bytes : M = r.missing /\ text = r.text /\ bytes = settings.psize[s]
      OBVIOUS
    <3>3. /\ IsFiniteSet(M) /\ M \subseteq Nat \ {0} /\ M # {} /\ text = rexmitMessage(M)
          /\ bytes \in Nat \ {0} /\ taken = handle_rexmit(receiveText(text), bytes)
      BY <2>1, <2>2, <3>1, <3>2
    <3>4. /\ Len(text) <= MAX_DATAGRAM_SIZE - RequestHeader => taken = {n \in M : n % bytes = 0}
          /\ Cardinality(taken \ M) \in {0, 1}
          /\ Len(text) <= MAX_DATAGRAM_SIZE - RequestHeader => Cardinality(taken \ M) = 0
      BY <3>3, OrdersFacts
    <3>5. QED  BY <3>2, <3>4 DEF Whole
  <2>4. ASSUME NEW n, MultipleOf(n, s)
        PROVE  n % settings.psize[s] = 0
    <3>1. PICK k \in Nat : n = k * settings.psize[s]
      BY <2>4 DEF MultipleOf
    <3>2. PICK m \in Nat \ {0} : m = settings.psize[s]
      BY <2>1
    <3>3. 0 \in 0 .. m - 1
      OBVIOUS
    <3>4. (k * m + 0) % m = 0
      BY <3>3, DivMod
    <3>5. n = k * m + 0
      BY <3>1, <3>2
    <3>6. QED  BY <3>2, <3>4, <3>5
  <2>5. Cardinality(taken \ r.missing) <= IF Whole(r) THEN 0 ELSE 1
    BY <2>3
  <2>6. QED  BY <2>2, <2>3, <2>4, <2>5
<1>2. QED  BY <1>1, AskedAlways, PTL

-------------------------------------------------------------------------------
(* What a user sends, read key by key                                      *)

Positions(bytes) == 1 .. End(bytes)

\* The commands there may be among the bytes.
CommandsOf(bytes) == [type : ToSet(bytes), option : ToSet(bytes) \cup {"none"}]

\* LEMMA.  A read goes on, but at the end.
LEMMA EscapedFacts ==
  ASSUME NEW bytes \in Seq(Bytes), NEW p \in Positions(bytes),
         NEW byte, byte = readEscaped(bytes, p)
  PROVE  /\ byte \in [tag : {"eof", "data", "command"}, value : ToSet(bytes) \cup {Eof},
                      next : Positions(bytes)]
         /\ byte.tag = "eof" => byte.value = Eof
         /\ byte.tag # "eof" => byte.next > p /\ byte.value \in ToSet(bytes)
         /\ byte.next >= p
<1>1. Len(bytes) \in Nat /\ End(bytes) = Len(bytes) + 1 /\ p \in 1 .. Len(bytes) + 1
  BY DEF End, Positions
<1>2. \A i \in 1 .. Len(bytes) : bytes[i] \in ToSet(bytes)
  BY DEF ToSet
<1>3. CASE p = End(bytes) \/ (p = End(bytes) - 1 /\ bytes[p] = IAC)
  <2>1. byte = AtEof(bytes)
    BY <1>1, <1>3 DEF readEscaped
  <2>2. QED  BY <1>1, <2>1 DEF AtEof, Positions
<1>4. CASE p < End(bytes) /\ bytes[p] # IAC
  <2>1. byte = [tag |-> "data", value |-> bytes[p], next |-> p + 1] /\ p \in 1 .. Len(bytes)
    BY <1>1, <1>4 DEF readEscaped
  <2>2. QED  BY <1>1, <1>2, <2>1 DEF Positions
<1>5. CASE p < End(bytes) - 1 /\ bytes[p] = IAC
  <2>1. /\ byte = [tag |-> IF bytes[p + 1] = IAC THEN "data" ELSE "command",
                   value |-> bytes[p + 1], next |-> p + 2]
        /\ p + 1 \in 1 .. Len(bytes)
    BY <1>1, <1>5 DEF readEscaped
  <2>2. QED  BY <1>1, <1>2, <2>1 DEF Positions
<1>6. p < End(bytes) - 1 \/ p = End(bytes) - 1 \/ p = End(bytes)
  BY <1>1
<1>7. QED  BY <1>1, <1>3, <1>4, <1>5, <1>6

\* LEMMA.  The measure of the recursions over the bytes is what is left of them.
LEMMA LeftFacts ==
  ASSUME NEW bytes \in Seq(Bytes)
  PROVE  /\ End(bytes) \in Nat
         /\ [p \in Positions(bytes) |-> End(bytes) - p] \in [Positions(bytes) -> 0 .. End(bytes)]
BY DEF End, Positions

EndStep(bytes, f, p) ==
  LET byte == readEscaped(bytes, p)
  IN  IF byte.tag = "eof" \/ EndsSubOptions(byte) THEN byte ELSE f[byte.next]

\* LEMMA.  Sub-options end behind their beginning, where the rest of them ends.
LEMMA SubOptionsEndFacts ==
  ASSUME NEW bytes \in Seq(Bytes), NEW start \in Positions(bytes),
         NEW last, last = SubOptionsEnd(bytes, start)
  PROVE  /\ last.next \in Positions(bytes) /\ last.next >= start
         /\ \E byte \in {readEscaped(bytes, start)} :
              last = IF byte.tag = "eof" \/ EndsSubOptions(byte) THEN byte
                     ELSE SubOptionsEnd(bytes, byte.next)
<1> DEFINE D == Positions(bytes)
           V == [tag : {"eof", "data", "command"}, value : ToSet(bytes) \cup {Eof}, next : D]
           E(p) == readEscaped(bytes, p)
           Base == {p \in D : E(p).tag = "eof" \/ EndsSubOptions(E(p))}
           base == [p \in Base |-> E(p)]
           before == [p \in D \ Base |-> E(p).next]
           step == [p \in D \ Base |-> [v \in V |-> v]]
           measure == [p \in D |-> End(bytes) - p]
<1>1. \A p \in D : E(p) \in V /\ E(p).next >= p /\ (p \notin Base => E(p).next > p)
  BY EscapedFacts
<1>2. End(bytes) \in Nat /\ measure \in [D -> 0 .. End(bytes)]
  BY LeftFacts
<1>3. D \subseteq Int
  BY DEF Positions
<1>4. PICK f \in [D -> V] : Recurs(f, D, Base, base, before, step)
  <2>1. base \in [Base -> V] /\ before \in [D \ Base -> D] /\ step \in [D \ Base -> [V -> V]]
    BY <1>1
  <2>2. \A p \in D \ Base : measure[before[p]] < measure[p]
    BY <1>1, <1>2, <1>3
  <2>3. Base \subseteq D
    OBVIOUS
  <2> HIDE DEF D, V, E, Base, base, before, step, measure
  <2>4. Recursion(D, V, End(bytes), measure, Base, base, before, step)
    BY <1>2, <2>1, <2>2, <2>3 DEF Recursion
  <2>5. QED  BY <2>4, RecursionDefines
<1>5. \A p \in D : f[p] = EndStep(bytes, f, p)
  BY <1>1, <1>4 DEF Recurs, EndStep
<1> DEFINE g == CHOOSE g : g = [p \in 1 .. End(bytes) |-> EndStep(bytes, g, p)]
<1>6. \A p \in D : SubOptionsEnd(bytes, p) = g[p]
  BY DEF SubOptionsEnd, EndStep
<1>7. g = [p \in D |-> EndStep(bytes, g, p)]
  <2>1. f = [p \in D |-> EndStep(bytes, f, p)]
    BY <1>5
  <2>2. QED  BY <2>1 DEF Positions
<1> HIDE DEF g
<1>8. \A p \in D : g[p] = EndStep(bytes, g, p)
  BY <1>7
<1> DEFINE Good == {p \in D : g[p].next \in D /\ g[p].next >= p}
<1>9. ASSUME NEW p \in D, \A q \in D : measure[q] < measure[p] => q \in Good
      PROVE  p \in Good
  <2>1. CASE p \in Base
    <3>1. g[p] = E(p)
      BY <1>8, <2>1 DEF EndStep
    <3>2. QED  BY <1>1, <3>1
  <2>2. CASE p \notin Base
    <3>1. g[p] = g[E(p).next] /\ E(p).next \in D /\ E(p).next > p
      BY <1>1, <1>8, <2>2 DEF EndStep
    <3>2. E(p).next \in Good
      BY <1>2, <1>3, <1>9, <3>1
    <3>3. QED  BY <1>3, <3>1, <3>2
  <2>3. QED  BY <2>1, <2>2
<1>10. D \subseteq Good
  <2> HIDE DEF D, Good, measure
  <2>1. GoodFromNearer(D, End(bytes), measure, Good)
    BY <1>2, <1>9 DEF GoodFromNearer
  <2>2. QED  BY ONLY <2>1, MeasureInduction
<1>11. last = IF start \in Base THEN E(start) ELSE SubOptionsEnd(bytes, E(start).next)
  <2>1. g[start] = IF start \in Base THEN E(start) ELSE g[E(start).next]
    BY <1>8 DEF EndStep
  <2>2. QED  BY <1>1, <1>6, <2>1
<1>12. QED  BY <1>6, <1>10, <1>11

\* LEMMA.  A command goes on, and its option is a byte.
LEMMA ThroughFacts ==
  ASSUME NEW bytes \in Seq(Bytes), NEW type, NEW p \in Positions(bytes),
         NEW through, through = ThroughCommand(bytes, type, p)
  PROVE  /\ through.next \in Positions(bytes) /\ through.next >= p
         /\ through.value \in ToSet(bytes) \cup {Eof, "none"}
<1> DEFINE option == readEscaped(bytes, p)
           last == SubOptionsEnd(bytes, option.next)
<1>1. /\ option.next \in Positions(bytes) /\ option.next >= p
      /\ option.value \in ToSet(bytes) \cup {Eof}
  BY EscapedFacts
<1>2. last.next \in Positions(bytes) /\ last.next >= option.next
  BY <1>1, SubOptionsEndFacts
<1>3. Positions(bytes) \subseteq Int
  BY DEF Positions
<1> HIDE DEF last
<1>4. \/ through = [value |-> option.value, next |-> option.next]
      \/ through = [value |-> Eof, next |-> option.next]
      \/ through = [value |-> IF last.tag = "eof" THEN Eof ELSE option.value, next |-> last.next]
      \/ through = [value |-> "none", next |-> p]
  BY DEF ThroughCommand, last
<1> HIDE DEF option
<1>5. QED  BY <1>1, <1>2, <1>3, <1>4

ReadStep(bytes, f, p) ==
  LET byte == readEscaped(bytes, p)
      through == ThroughCommand(bytes, byte.value, byte.next)
  IN  IF byte.tag # "command"
      THEN [value |-> byte.value, next |-> byte.next, commands |-> <<>>]
      ELSE IF through.value = Eof
      THEN [value |-> Eof, next |-> through.next, commands |-> <<>>]
      ELSE [f[through.next]
              EXCEPT !.commands = <<Command(byte.value, through.value)>> \o @]

BytesRead(bytes) ==
  [value : ToSet(bytes) \cup {Eof}, next : Positions(bytes), commands : Seq(CommandsOf(bytes))]

\* LEMMA.  A byte is read from behind the commands before it.
LEMMA ReadByteFacts ==
  ASSUME NEW bytes \in Seq(Bytes), NEW start \in Positions(bytes),
         NEW byte, byte = readByte(bytes, start)
  PROVE  /\ byte \in BytesRead(bytes)
         /\ byte.value # Eof => byte.next > start
         /\ \E e \in {readEscaped(bytes, start)} :
            \E through \in {ThroughCommand(bytes, e.value, e.next)} :
              byte = IF e.tag # "command"
                     THEN [value |-> e.value, next |-> e.next, commands |-> <<>>]
                     ELSE IF through.value = Eof
                     THEN [value |-> Eof, next |-> through.next, commands |-> <<>>]
                     ELSE [readByte(bytes, through.next)
                             EXCEPT !.commands = <<Command(e.value, through.value)>> \o @]
<1> DEFINE D == Positions(bytes)
           V == BytesRead(bytes)
           E(p) == readEscaped(bytes, p)
           T(p) == ThroughCommand(bytes, E(p).value, E(p).next)
           Base == {p \in D : E(p).tag # "command" \/ T(p).value = Eof}
           base == [p \in Base |-> IF E(p).tag # "command"
                      THEN [value |-> E(p).value, next |-> E(p).next, commands |-> <<>>]
                      ELSE [value |-> Eof, next |-> T(p).next, commands |-> <<>>]]
           before == [p \in D \ Base |-> T(p).next]
           step == [p \in D \ Base |-> [v \in V |->
                      [v EXCEPT !.commands = <<Command(E(p).value, T(p).value)>> \o @]]]
           measure == [p \in D |-> End(bytes) - p]
<1>1. \A p \in D :
        /\ E(p) \in [tag : {"eof", "data", "command"}, value : ToSet(bytes) \cup {Eof}, next : D]
        /\ E(p).tag = "eof" => E(p).value = Eof
        /\ E(p).tag # "eof" => E(p).next > p /\ E(p).value \in ToSet(bytes)
  BY EscapedFacts
<1>2. \A p \in D :
        /\ T(p).next \in D /\ T(p).next >= E(p).next
        /\ T(p).value \in ToSet(bytes) \cup {Eof, "none"}
  BY <1>1, ThroughFacts
<1>3. End(bytes) \in Nat /\ measure \in [D -> 0 .. End(bytes)] /\ D \subseteq Int
  BY LeftFacts DEF Positions
<1>4. \A p \in D \ Base : E(p).tag = "command" /\ T(p).next > p /\ before[p] = T(p).next
  <2>1. ASSUME NEW p \in D \ Base
        PROVE  E(p).tag = "command" /\ before[p] = T(p).next
    <3> HIDE DEF T, E
    <3>1. QED  BY <1>1
  <2>2. ASSUME NEW p \in D \ Base
        PROVE  T(p).next > p
    <3>1. E(p).tag # "eof" /\ p \in D
      BY <2>1
    <3> HIDE DEF T, E, D
    <3>2. /\ E(p).next > p /\ T(p).next >= E(p).next
          /\ E(p).next \in D /\ T(p).next \in D
      BY <1>1, <1>2, <3>1
    <3>3. p \in Int /\ E(p).next \in Int /\ T(p).next \in Int
      BY <1>3, <3>1, <3>2
    <3>4. QED  BY ONLY <3>2, <3>3
  <2>3. QED  BY <2>1, <2>2
<1>5. PICK f \in [D -> V] : Recurs(f, D, Base, base, before, step)
  <2>1. base \in [Base -> V]
    <3> HIDE DEF T, E
    <3>1. <<>> \in Seq(CommandsOf(bytes))
      OBVIOUS
    <3>2. QED  BY <1>1, <1>2, <3>1 DEF BytesRead
  <2>2. before \in [D \ Base -> D]
    BY <1>2
  <2>3. step \in [D \ Base -> [V -> V]]
    <3> HIDE DEF T, E
    <3>1. ASSUME NEW p \in D \ Base, NEW v \in V
          PROVE  [v EXCEPT !.commands = <<Command(E(p).value, T(p).value)>> \o @] \in V
      <4>1. Command(E(p).value, T(p).value) \in CommandsOf(bytes)
        BY <1>1, <1>2, <1>4 DEF Command, CommandsOf
      <4>2. v.commands \in Seq(CommandsOf(bytes))
        BY DEF BytesRead
      <4>3. <<Command(E(p).value, T(p).value)>> \o v.commands \in Seq(CommandsOf(bytes))
        BY <4>1, <4>2
      <4>4. QED  BY <4>3 DEF BytesRead
    <3>2. QED  BY <3>1
  <2>4. \A p \in D \ Base : measure[before[p]] < measure[p]
    <3> HIDE DEF T, E, Base
    <3>1. QED  BY <1>2, <1>3, <1>4
  <2>5. Base \subseteq D
    OBVIOUS
  <2> HIDE DEF D, V, E, T, Base, base, before, step, measure
  <2>6. Recursion(D, V, End(bytes), measure, Base, base, before, step)
    BY <1>3, <2>1, <2>2, <2>3, <2>4, <2>5 DEF Recursion
  <2>7. QED  BY <2>6, RecursionDefines
<1>6. \A p \in D : f[p] = ReadStep(bytes, f, p)
  <2>1. \A p \in D : f[p] = IF p \in Base THEN base[p] ELSE step[p][f[T(p).next]]
    BY <1>4, <1>5 DEF Recurs
  <2>2. \A p \in D : f[T(p).next] \in V
    BY <1>2
  <2>3. QED  BY <2>1, <2>2 DEF ReadStep
<1> DEFINE g == CHOOSE g : g = [p \in 1 .. End(bytes) |-> ReadStep(bytes, g, p)]
<1>7. \A p \in D : readByte(bytes, p) = g[p]
  BY DEF readByte, ReadStep
<1>8. g = [p \in D |-> ReadStep(bytes, g, p)]
  <2>1. f = [p \in D |-> ReadStep(bytes, f, p)]
    BY <1>6
  <2>2. QED  BY <2>1 DEF Positions
<1> HIDE DEF g
<1>9. \A p \in D : g[p] = ReadStep(bytes, g, p)
  BY <1>8
<1> DEFINE Good == {p \in D : g[p] \in V /\ (g[p].value # Eof => g[p].next > p)}
<1>10. ASSUME NEW p \in D, \A q \in D : measure[q] < measure[p] => q \in Good
       PROVE  p \in Good
  <2>1. CASE p \in Base
    <3>1. g[p] = base[p] /\ base[p] \in V
      <4>1. <<>> \in Seq(CommandsOf(bytes))
        OBVIOUS
      <4>2. g[p] = base[p]
        BY <1>9, <2>1 DEF ReadStep
      <4> HIDE DEF E, T
      <4>3. QED  BY <1>1, <1>2, <2>1, <4>1, <4>2 DEF BytesRead
    <3>2. base[p].value # Eof => base[p].next > p
      <4> HIDE DEF E, T
      <4>1. QED  BY <1>1, <2>1
    <3>3. QED  BY <3>1, <3>2
  <2>2. CASE p \notin Base
    <3>1. g[p] = [g[T(p).next] EXCEPT !.commands = <<Command(E(p).value, T(p).value)>> \o @]
      BY <1>4, <1>9, <2>2 DEF ReadStep
    <3> HIDE DEF E, T
    <3>2. T(p).next \in Good /\ T(p).next > p /\ T(p).next \in D
      BY <1>2, <1>3, <1>4, <1>10, <2>2
    <3>3. Command(E(p).value, T(p).value) \in CommandsOf(bytes)
      BY <1>1, <1>2, <1>4, <2>2 DEF Command, CommandsOf
    <3>4. <<Command(E(p).value, T(p).value)>> \o g[T(p).next].commands \in Seq(CommandsOf(bytes))
      BY <3>2, <3>3 DEF BytesRead
    <3>5. g[p] \in V /\ g[p].value = g[T(p).next].value /\ g[p].next = g[T(p).next].next
      BY <3>1, <3>2, <3>4 DEF BytesRead
    <3>6. g[T(p).next].next \in Int
      BY <1>3, <3>2 DEF BytesRead
    <3>7. g[p].value # Eof => g[p].next > p
      <4>1. g[T(p).next].value # Eof => g[T(p).next].next > T(p).next
        BY <3>2
      <4> HIDE DEF Good
      <4>2. QED  BY <1>3, <3>2, <3>5, <3>6, <4>1
    <3>8. QED  BY <3>5, <3>7
  <2>3. QED  BY <2>1, <2>2
<1>11. D \subseteq Good
  <2> HIDE DEF D, V, E, T, Base, base, before, step, Good, measure
  <2>1. End(bytes) \in Nat /\ measure \in [D -> 0 .. End(bytes)]
    BY ONLY <1>3
  <2>2. GoodFromNearer(D, End(bytes), measure, Good)
    BY ONLY <2>1, <1>10 DEF GoodFromNearer
  <2>3. QED  BY ONLY <2>2, MeasureInduction
<1>12. byte = IF E(start).tag # "command"
              THEN [value |-> E(start).value, next |-> E(start).next, commands |-> <<>>]
              ELSE IF T(start).value = Eof
              THEN [value |-> Eof, next |-> T(start).next, commands |-> <<>>]
              ELSE [readByte(bytes, T(start).next)
                      EXCEPT !.commands = <<Command(E(start).value, T(start).value)>> \o @]
  <2>1. g[start] = ReadStep(bytes, g, start)
    BY <1>9
  <2>2. g[T(start).next] = readByte(bytes, T(start).next)
    BY <1>2, <1>7
  <2>3. QED  BY <1>7, <2>1, <2>2 DEF ReadStep
<1>13. QED  BY <1>7, <1>11, <1>12

\* What KeyOf may give.
Keys ==
  {"END_OF_STREAM", "PRINTABLE", "ENTER", "escape", "csi", "none"}
    \cup {Arrows[byte] : byte \in DOMAIN Arrows}

KeysRead(bytes) ==
  [key : Keys, next : Positions(bytes), commands : Seq(CommandsOf(bytes))]

\* LEMMA.  The end of the bytes is the end of a key.
LEMMA KeyOfFacts ==
  ASSUME NEW state \in Places, NEW byte
  PROVE  /\ KeyOf(state, byte) \in Keys
         /\ KeyOf(state, byte) = "END_OF_STREAM" <=> byte = Eof
<1>1. CASE byte = Eof
  <2>1. KeyOf(state, byte) = "END_OF_STREAM"
    BY <1>1 DEF KeyOf
  <2>2. QED  BY <1>1, <2>1 DEF Keys
<1>2. CASE byte # Eof
  <2> DEFINE key == CASE state = "none" /\ byte \in Printable -> "PRINTABLE"
                      [] state = "none" /\ byte = "ESC" -> "escape"
                      [] state = "none" /\ byte = "CR" -> "ENTER"
                      [] state = "escape" /\ byte = "[" -> "csi"
                      [] state = "csi" /\ byte \in DOMAIN Arrows -> Arrows[byte]
                      [] OTHER -> "none"
  <2>1. KeyOf(state, byte) = key
    BY <1>2 DEF KeyOf
  <2>2. CASE state = "none" /\ byte \in Printable
    <3>1. byte # "ESC" /\ byte # "CR" /\ state # "escape" /\ state # "csi"
      BY <2>2 DEF Printable
    <3>2. key = "PRINTABLE"
      BY <2>2, <3>1
    <3>3. QED  BY <1>2, <2>1, <3>2 DEF Keys
  <2>3. CASE state = "none" /\ byte = "ESC"
    <3>1. byte \notin Printable /\ byte # "CR" /\ state # "escape" /\ state # "csi"
      BY <2>3 DEF Printable
    <3>2. key = "escape"
      BY <2>3, <3>1
    <3>3. QED  BY <1>2, <2>1, <3>2 DEF Keys
  <2>4. CASE state = "none" /\ byte = "CR"
    <3>1. byte \notin Printable /\ byte # "ESC" /\ state # "escape" /\ state # "csi"
      BY <2>4 DEF Printable
    <3>2. key = "ENTER"
      BY <2>4, <3>1
    <3>3. QED  BY <1>2, <2>1, <3>2 DEF Keys
  <2>5. CASE state = "escape" /\ byte = "["
    <3>1. state # "none" /\ state # "csi"
      BY <2>5
    <3>2. key = "csi"
      BY <2>5, <3>1
    <3>3. QED  BY <1>2, <2>1, <3>2 DEF Keys
  <2>6. CASE state = "csi" /\ byte \in DOMAIN Arrows
    <3>1. state # "none" /\ state # "escape"
      BY <2>6
    <3>2. key = Arrows[byte]
      BY <2>6, <3>1
    <3>3. Arrows[byte] # "END_OF_STREAM"
      BY <2>6 DEF Arrows
    <3>4. QED  BY <1>2, <2>1, <2>6, <3>2, <3>3 DEF Keys
  <2>7. CASE ~ \/ state = "none" /\ (byte \in Printable \/ byte = "ESC" \/ byte = "CR")
               \/ state = "escape" /\ byte = "["
               \/ state = "csi" /\ byte \in DOMAIN Arrows
    <3>1. key = "none"
      BY <2>7
    <3>2. QED  BY <1>2, <2>1, <3>1 DEF Keys
  <2> HIDE DEF key
  <2>8. QED  BY <2>2, <2>3, <2>4, <2>5, <2>6, <2>7
<1>3. QED  BY <1>1, <1>2

KeyStep(bytes, f, p) ==
  LET byte == readByte(bytes, p)
      With(key) ==
        IF key \in Places
        THEN [f[byte.next][key] EXCEPT !.commands = byte.commands \o @]
        ELSE [key |-> key, next |-> byte.next, commands |-> byte.commands]
  IN  [state \in Places |-> With(KeyOf(state, byte.value))]

\* A key in terms of those further on.
KeyIs(bytes, p, state) ==
  \E byte \in {readByte(bytes, p)} : \E key \in {KeyOf(state, byte.value)} :
    KeyFrom(bytes, p)[state] =
      IF key \in Places
      THEN [KeyFrom(bytes, byte.next)[key] EXCEPT !.commands = byte.commands \o @]
      ELSE [key |-> key, next |-> byte.next, commands |-> byte.commands]

\* LEMMA.  A key is read from behind the commands before it and in it.
LEMMA KeyFromFacts ==
  ASSUME NEW bytes \in Seq(Bytes), NEW start \in Positions(bytes)
  PROVE  /\ KeyFrom(bytes, start) \in [Places -> KeysRead(bytes)]
         /\ \A state \in Places : KeyIs(bytes, start, state)
<1> DEFINE D == Positions(bytes)
           R == KeysRead(bytes)
           V == [Places -> R]
           B(p) == readByte(bytes, p)
           K(p, state) == KeyOf(state, B(p).value)
           Base == {p \in D : B(p).value = Eof}
           Key(p, state) == [key |-> K(p, state), next |-> B(p).next, commands |-> B(p).commands]
           base == [p \in Base |-> [state \in Places |-> Key(p, state)]]
           before == [p \in D \ Base |-> B(p).next]
           step == [p \in D \ Base |-> [v \in V |-> [state \in Places |->
                      IF K(p, state) \in Places
                      THEN [v[K(p, state)] EXCEPT !.commands = B(p).commands \o @]
                      ELSE Key(p, state)]]]
           measure == [p \in D |-> End(bytes) - p]
<1>1. \A p \in D : B(p) \in BytesRead(bytes) /\ (p \notin Base => B(p).next > p)
  BY ReadByteFacts
<1>2. \A p \in D, state \in Places :
        K(p, state) \in Keys /\ (K(p, state) \in Places => p \notin Base)
  BY KeyOfFacts DEF Places
<1>3. End(bytes) \in Nat /\ measure \in [D -> 0 .. End(bytes)] /\ D \subseteq Int
  BY LeftFacts DEF Positions
<1>4. \A p \in D, state \in Places : Key(p, state) \in R
  <2> HIDE DEF K, B
  <2>1. QED  BY <1>1, <1>2 DEF BytesRead, KeysRead
<1>5. ASSUME NEW p \in D, NEW r \in R
      PROVE  [r EXCEPT !.commands = B(p).commands \o @] \in R
  <2> HIDE DEF B
  <2>1. B(p).commands \in Seq(CommandsOf(bytes)) /\ r.commands \in Seq(CommandsOf(bytes))
    BY <1>1 DEF BytesRead, KeysRead
  <2>2. B(p).commands \o r.commands \in Seq(CommandsOf(bytes))
    BY <2>1
  <2>3. QED  BY <2>2 DEF KeysRead
<1>6. PICK f \in [D -> V] : Recurs(f, D, Base, base, before, step)
  <2>1. base \in [Base -> V]
    <3> HIDE DEF Key, R
    <3>1. QED  BY <1>4
  <2>2. before \in [D \ Base -> D]
    <3> HIDE DEF B
    <3>1. QED  BY <1>1 DEF BytesRead
  <2>3. step \in [D \ Base -> [V -> V]]
    <3> HIDE DEF Key, R, K, B
    <3>1. QED  BY <1>4, <1>5
  <2>4. \A p \in D \ Base : measure[before[p]] < measure[p]
    <3>1. \A p \in D \ Base : before[p] = B(p).next /\ B(p).next \in D /\ B(p).next > p
      BY <1>1 DEF BytesRead
    <3> HIDE DEF B, Base, before
    <3>2. QED  BY <1>3, <3>1
  <2>5. Base \subseteq D
    OBVIOUS
  <2> HIDE DEF D, V, R, B, K, Key, Base, base, before, step, measure
  <2>6. Recursion(D, V, End(bytes), measure, Base, base, before, step)
    BY <1>3, <2>1, <2>2, <2>3, <2>4, <2>5 DEF Recursion
  <2>7. QED  BY <2>6, RecursionDefines
<1>7. \A p \in D : f[p] = KeyStep(bytes, f, p)
  <2>1. ASSUME NEW p \in Base
        PROVE  f[p] = KeyStep(bytes, f, p)
    <3>1. f[p] = [state \in Places |-> Key(p, state)]
      BY <1>6, <2>1 DEF Recurs
    <3>2. \A state \in Places : K(p, state) \notin Places
      BY <1>2
    <3>3. QED  BY <3>1, <3>2 DEF KeyStep
  <2>2. ASSUME NEW p \in D \ Base
        PROVE  f[p] = KeyStep(bytes, f, p)
    <3>1. f[p] = step[p][f[B(p).next]] /\ f[B(p).next] \in V
      BY <1>1, <1>6, <2>2 DEF Recurs, BytesRead
    <3>2. QED  BY <3>1 DEF KeyStep
  <2>3. QED  BY <2>1, <2>2
<1> DEFINE g == CHOOSE g : g = [p \in 1 .. End(bytes) |-> KeyStep(bytes, g, p)]
<1>8. \A p \in D : KeyFrom(bytes, p) = g[p]
  BY DEF KeyFrom, KeyStep
<1>9. g = [p \in D |-> KeyStep(bytes, g, p)]
  <2>1. f = [p \in D |-> KeyStep(bytes, f, p)]
    BY <1>7
  <2>2. QED  BY <2>1 DEF Positions
<1> HIDE DEF g
<1>10. \A p \in D : g[p] = KeyStep(bytes, g, p)
  BY <1>9
<1> DEFINE Good == {p \in D : g[p] \in V}
<1>11. ASSUME NEW p \in D, \A q \in D : measure[q] < measure[p] => q \in Good
       PROVE  p \in Good
  <2>1. g[p] = [state \in Places |->
                  IF K(p, state) \in Places
                  THEN [g[B(p).next][K(p, state)] EXCEPT !.commands = B(p).commands \o @]
                  ELSE Key(p, state)]
    BY <1>10 DEF KeyStep
  <2>2. ASSUME NEW state \in Places, K(p, state) \in Places
        PROVE  [g[B(p).next][K(p, state)] EXCEPT !.commands = B(p).commands \o @] \in R
    <3>1. B(p).next \in D /\ B(p).next > p
      BY <1>1, <1>2, <2>2 DEF BytesRead
    <3> HIDE DEF B, K
    <3>2. g[B(p).next] \in V
      <4>1. measure[B(p).next] < measure[p]
        BY <1>3, <3>1
      <4>2. QED  BY <1>11, <3>1, <4>1
    <3> HIDE DEF R
    <3>3. g[B(p).next][K(p, state)] \in R
      BY <2>2, <3>2
    <3>4. QED  BY <1>5, <3>3
  <2> HIDE DEF B, K, R, Key
  <2>3. g[p] \in V
    BY <1>4, <2>1, <2>2
  <2>4. QED  BY <2>3
<1>12. D \subseteq Good
  <2> HIDE DEF D, V, R, B, K, Key, Base, base, before, step, Good, measure
  <2>1. End(bytes) \in Nat /\ measure \in [D -> 0 .. End(bytes)]
    BY ONLY <1>3
  <2>2. GoodFromNearer(D, End(bytes), measure, Good)
    BY ONLY <2>1, <1>11 DEF GoodFromNearer
  <2>3. QED  BY ONLY <2>2, MeasureInduction
<1>13. ASSUME NEW state \in Places PROVE KeyIs(bytes, start, state)
  <2>1. g[start] = KeyStep(bytes, g, start) /\ KeyFrom(bytes, start) = g[start]
    BY <1>8, <1>10
  <2>2. g[B(start).next] = KeyFrom(bytes, B(start).next)
    <3>1. B(start).next \in D
      BY <1>1 DEF BytesRead
    <3>2. QED  BY <1>8, <3>1
  <2>3. QED  BY <2>1, <2>2 DEF KeyStep, KeyIs
<1>14. QED  BY <1>8, <1>12, <1>13

\* A byte in terms of those further on.
ByteIs(bytes, p) ==
  \E e \in {readEscaped(bytes, p)} : \E through \in {ThroughCommand(bytes, e.value, e.next)} :
    readByte(bytes, p) =
      IF e.tag # "command"
      THEN [value |-> e.value, next |-> e.next, commands |-> <<>>]
      ELSE IF through.value = Eof
      THEN [value |-> Eof, next |-> through.next, commands |-> <<>>]
      ELSE [readByte(bytes, through.next)
              EXCEPT !.commands = <<Command(e.value, through.value)>> \o @]

\* LEMMA.  A byte is what the reading of it makes of those further on.
LEMMA ReadByteIs ==
  ASSUME NEW bytes \in Seq(Bytes), NEW p \in Positions(bytes)
  PROVE  ByteIs(bytes, p)
BY ReadByteFacts DEF ByteIs

\* LEMMA.  A byte that is not the end leads on.
LEMMA ByteGoesOn ==
  ASSUME NEW bytes \in Seq(Bytes), NEW p \in Positions(bytes)
  PROVE  /\ readByte(bytes, p).next \in Positions(bytes)
         /\ readByte(bytes, p).value # Eof => readByte(bytes, p).next > p
<1>1. PICK byte : byte = readByte(bytes, p)
  OBVIOUS
<1>2. byte \in BytesRead(bytes) /\ (byte.value # Eof => byte.next > p)
  BY <1>1, ReadByteFacts
<1>3. QED  BY <1>1, <1>2 DEF BytesRead

\* LEMMA.  A key but the end is read from where it begins on.
LEMMA KeyGoesOn ==
  ASSUME NEW bytes \in Seq(Bytes), NEW start \in Positions(bytes)
  PROVE  \A state \in Places :
           KeyFrom(bytes, start)[state].key # "END_OF_STREAM"
             => KeyFrom(bytes, start)[state].next > start
<1> DEFINE D == Positions(bytes)
           F(p, state) == KeyFrom(bytes, p)[state]
           B(p) == readByte(bytes, p)
           K(p, state) == KeyOf(state, B(p).value)
           measure == [p \in D |-> End(bytes) - p]
           Good == {p \in D : \A state \in Places :
                      F(p, state).key # "END_OF_STREAM" => F(p, state).next > p}
<1>1. End(bytes) \in Nat /\ measure \in [D -> 0 .. End(bytes)] /\ D \subseteq Int
  BY LeftFacts DEF Positions
<1>2. \A p \in D : B(p).next \in D /\ (B(p).value # Eof => B(p).next > p)
  BY ByteGoesOn
<1>3. \A p \in D, state \in Places :
        /\ F(p, state) = IF K(p, state) \in Places
                         THEN [F(B(p).next, K(p, state)) EXCEPT !.commands = B(p).commands \o @]
                         ELSE [key |-> K(p, state), next |-> B(p).next,
                               commands |-> B(p).commands]
        /\ F(p, state) \in KeysRead(bytes)
  <2>1. ASSUME NEW p \in D, NEW state \in Places
        PROVE  /\ F(p, state) = IF K(p, state) \in Places
                         THEN [F(B(p).next, K(p, state)) EXCEPT !.commands = B(p).commands \o @]
                         ELSE [key |-> K(p, state), next |-> B(p).next,
                               commands |-> B(p).commands]
               /\ F(p, state) \in KeysRead(bytes)
    <3>1. KeyIs(bytes, p, state) /\ KeyFrom(bytes, p) \in [Places -> KeysRead(bytes)]
      BY KeyFromFacts
    <3>2. QED  BY <3>1 DEF KeyIs
  <2> HIDE DEF F, B, K
  <2>2. QED  BY <2>1
<1>4. \A p \in D, state \in Places : K(p, state) = "END_OF_STREAM" <=> B(p).value = Eof
  BY KeyOfFacts
<1> HIDE DEF F, B, K
<1>5. ASSUME NEW p \in D, \A q \in D : measure[q] < measure[p] => q \in Good
      PROVE  p \in Good
  <2> SUFFICES ASSUME NEW state \in Places, F(p, state).key # "END_OF_STREAM"
               PROVE  F(p, state).next > p
    OBVIOUS
  <2>1. CASE K(p, state) \in Places
    <3>1. B(p).value # Eof
      BY <1>4, <2>1 DEF Places
    <3>2. B(p).next \in D /\ B(p).next > p
      BY <1>2, <3>1
    <3>3. F(B(p).next, K(p, state)) \in KeysRead(bytes)
      BY <1>3, <2>1, <3>2
    <3>4. /\ F(p, state).key = F(B(p).next, K(p, state)).key
          /\ F(p, state).next = F(B(p).next, K(p, state)).next
      BY <1>3, <2>1, <3>3 DEF KeysRead
    <3>5. measure[B(p).next] < measure[p]
      BY <1>1, <3>2
    <3>6. F(B(p).next, K(p, state)).next > B(p).next
      BY <1>5, <2>1, <3>2, <3>4, <3>5
    <3>7. F(p, state).next \in Int
      BY <1>1, <3>3, <3>4 DEF KeysRead
    <3>8. QED  BY <1>1, <3>2, <3>4, <3>6, <3>7
  <2>2. CASE K(p, state) \notin Places
    <3>1. F(p, state) = [key |-> K(p, state), next |-> B(p).next, commands |-> B(p).commands]
      BY <1>3, <2>2
    <3>2. F(p, state).key = K(p, state) /\ F(p, state).next = B(p).next
      BY <3>1
    <3>3. QED  BY <1>2, <1>4, <3>2
  <2>3. QED  BY <2>1, <2>2
<1>6. D \subseteq Good
  <2> HIDE DEF D, Good, measure
  <2>1. GoodFromNearer(D, End(bytes), measure, Good)
    BY ONLY <1>1, <1>5 DEF GoodFromNearer
  <2>2. QED  BY ONLY <2>1, MeasureInduction
<1>7. QED  BY <1>6 DEF F

KeysStep(bytes, f, p) ==
  LET From(key) ==
        <<key.key>> \o IF key.key = "END_OF_STREAM" THEN <<>> ELSE f[key.next]
  IN  From(nextKey(bytes, p))

\* LEMMA.  All keys are the next and all those behind it.
LEMMA KeysFromFacts ==
  ASSUME NEW bytes \in Seq(Bytes), NEW start \in Positions(bytes)
  PROVE  /\ KeysFrom(bytes, start) \in Seq(Keys)
         /\ \E key \in {KeyFrom(bytes, start)["none"]} :
              KeysFrom(bytes, start) =
                <<key.key>> \o IF key.key = "END_OF_STREAM" THEN <<>>
                               ELSE KeysFrom(bytes, key.next)
<1> DEFINE D == Positions(bytes)
           V == Seq(Keys)
           N(p) == nextKey(bytes, p)
           Base == {p \in D : N(p).key = "END_OF_STREAM"}
           base == [p \in Base |-> <<N(p).key>> \o <<>>]
           before == [p \in D \ Base |-> N(p).next]
           step == [p \in D \ Base |-> [v \in V |-> <<N(p).key>> \o v]]
           measure == [p \in D |-> End(bytes) - p]
<1>1. \A p \in D : /\ N(p).key \in Keys /\ N(p).next \in D
                   /\ p \notin Base => N(p).next > p
  <2>1. "none" \in Places
    BY DEF Places
  <2>2. QED  BY <2>1, KeyFromFacts, KeyGoesOn DEF nextKey, KeysRead
<1>2. End(bytes) \in Nat /\ measure \in [D -> 0 .. End(bytes)] /\ D \subseteq Int
  BY LeftFacts DEF Positions
<1> HIDE DEF N
<1>12. <<>> \in V /\ \A p \in D, v \in V : <<N(p).key>> \o v \in V
  <2>1. ASSUME NEW p \in D, NEW v \in V PROVE <<N(p).key>> \o v \in V
    <3>1. <<N(p).key>> \in V
      BY <1>1
    <3>2. QED  BY <3>1
  <2>2. QED  BY <2>1
<1>3. PICK f \in [D -> V] : Recurs(f, D, Base, base, before, step)
  <2> HIDE DEF V
  <2>2. base \in [Base -> V]
    BY <1>12
  <2>3. before \in [D \ Base -> D] /\ step \in [D \ Base -> [V -> V]]
    BY <1>1, <1>12
  <2>4. \A p \in D \ Base : measure[before[p]] < measure[p]
    BY <1>1, <1>2
  <2>5. Base \subseteq D
    OBVIOUS
  <2> HIDE DEF D, V, Base, base, before, step, measure
  <2>6. Recursion(D, V, End(bytes), measure, Base, base, before, step)
    BY <1>2, <2>2, <2>3, <2>4, <2>5 DEF Recursion
  <2>7. QED  BY <2>6, RecursionDefines
<1>4. \A p \in D : f[p] = KeysStep(bytes, f, p)
  BY <1>1, <1>3 DEF Recurs, KeysStep, N
<1> DEFINE g == CHOOSE g : g = [p \in 1 .. End(bytes) |-> KeysStep(bytes, g, p)]
<1>5. \A p \in D : KeysFrom(bytes, p) = g[p]
  BY DEF KeysFrom, KeysStep
<1>6. g = [p \in D |-> KeysStep(bytes, g, p)]
  <2>1. f = [p \in D |-> KeysStep(bytes, f, p)]
    BY <1>4
  <2>2. QED  BY <2>1 DEF Positions
<1> HIDE DEF g
<1>7. \A p \in D : g[p] = <<N(p).key>> \o IF N(p).key = "END_OF_STREAM" THEN <<>> ELSE g[N(p).next]
  BY <1>6 DEF KeysStep, N
<1> DEFINE Good == {p \in D : g[p] \in V}
<1>8. ASSUME NEW p \in D, \A q \in D : measure[q] < measure[p] => q \in Good
      PROVE  p \in Good
  <2>1. CASE p \in Base
    <3>1. g[p] = <<N(p).key>> \o <<>>
      BY <1>7, <2>1
    <3> HIDE DEF V
    <3>2. QED  BY <1>12, <3>1
  <2>2. CASE p \notin Base
    <3>1. N(p).next \in D /\ N(p).next > p
      BY <1>1, <2>2
    <3>2. measure[N(p).next] < measure[p]
      BY <1>2, <3>1
    <3>3. g[N(p).next] \in V
      BY <1>8, <3>1, <3>2
    <3>4. g[p] = <<N(p).key>> \o g[N(p).next]
      BY <1>7, <2>2
    <3> HIDE DEF V
    <3>5. QED  BY <1>12, <3>3, <3>4
  <2>3. QED  BY <2>1, <2>2
<1>9. D \subseteq Good
  <2> HIDE DEF D, V, Base, base, before, step, Good, measure
  <2>1. GoodFromNearer(D, End(bytes), measure, Good)
    BY ONLY <1>2, <1>8 DEF GoodFromNearer
  <2>2. QED  BY ONLY <2>1, MeasureInduction
<1>10. KeysFrom(bytes, start) =
        <<N(start).key>> \o IF N(start).key = "END_OF_STREAM" THEN <<>>
                            ELSE KeysFrom(bytes, N(start).next)
  BY <1>1, <1>5, <1>7
<1>11. QED  BY <1>5, <1>9, <1>10 DEF N, nextKey

BoundariesStep(bytes, f, p) ==
  LET After(byte) == IF byte.value = Eof THEN {} ELSE f[byte.next]
  IN  {p} \cup After(readByte(bytes, p))

\* LEMMA.  The boundaries are where one starts and those behind the next byte.
LEMMA BoundariesFacts ==
  ASSUME NEW bytes \in Seq(Bytes), NEW start \in Positions(bytes)
  PROVE  /\ BoundariesFrom(bytes, start) \subseteq Positions(bytes)
         /\ \A p \in BoundariesFrom(bytes, start) : p >= start
         /\ \E byte \in {readByte(bytes, start)} :
              BoundariesFrom(bytes, start) =
                {start} \cup IF byte.value = Eof THEN {} ELSE BoundariesFrom(bytes, byte.next)
<1> DEFINE D == Positions(bytes)
           V == SUBSET D
           B(p) == readByte(bytes, p)
           Base == {p \in D : B(p).value = Eof}
           base == [p \in Base |-> {p}]
           before == [p \in D \ Base |-> B(p).next]
           step == [p \in D \ Base |-> [v \in V |-> {p} \cup v]]
           measure == [p \in D |-> End(bytes) - p]
<1>1. \A p \in D : B(p).next \in D /\ (p \notin Base => B(p).next > p)
  BY ByteGoesOn
<1>2. End(bytes) \in Nat /\ measure \in [D -> 0 .. End(bytes)] /\ D \subseteq Int
  BY LeftFacts DEF Positions
<1> HIDE DEF B
<1>3. PICK f \in [D -> V] : Recurs(f, D, Base, base, before, step)
  <2>1. base \in [Base -> V] /\ before \in [D \ Base -> D] /\ step \in [D \ Base -> [V -> V]]
    BY <1>1
  <2>2. \A p \in D \ Base : measure[before[p]] < measure[p]
    BY <1>1, <1>2
  <2>3. Base \subseteq D
    OBVIOUS
  <2> HIDE DEF D, V, Base, base, before, step, measure
  <2>4. Recursion(D, V, End(bytes), measure, Base, base, before, step)
    BY <1>2, <2>1, <2>2, <2>3 DEF Recursion
  <2>5. QED  BY <2>4, RecursionDefines
<1>4. \A p \in D : f[p] = BoundariesStep(bytes, f, p)
  BY <1>1, <1>3 DEF Recurs, BoundariesStep, B
<1> DEFINE g == CHOOSE g : g = [p \in 1 .. End(bytes) |-> BoundariesStep(bytes, g, p)]
<1>5. \A p \in D : BoundariesFrom(bytes, p) = g[p]
  BY DEF BoundariesFrom, BoundariesStep
<1>6. g = [p \in D |-> BoundariesStep(bytes, g, p)]
  <2>1. f = [p \in D |-> BoundariesStep(bytes, f, p)]
    BY <1>4
  <2>2. QED  BY <2>1 DEF Positions
<1> HIDE DEF g
<1>7. \A p \in D : g[p] = {p} \cup IF B(p).value = Eof THEN {} ELSE g[B(p).next]
  BY <1>6 DEF BoundariesStep, B
<1> DEFINE Good == {p \in D : g[p] \subseteq D /\ \A q \in g[p] : q >= p}
<1>8. ASSUME NEW p \in D, \A q \in D : measure[q] < measure[p] => q \in Good
      PROVE  p \in Good
  <2>1. CASE p \in Base
    BY <1>2, <1>7, <2>1
  <2>2. CASE p \notin Base
    <3>1. B(p).next \in D /\ B(p).next > p
      BY <1>1, <2>2
    <3>2. measure[B(p).next] < measure[p]
      BY <1>2, <3>1
    <3>3. g[B(p).next] \subseteq D /\ \A q \in g[B(p).next] : q >= B(p).next
      BY <1>8, <3>1, <3>2
    <3>4. g[p] = {p} \cup g[B(p).next]
      BY <1>7, <2>2
    <3>5. p \in Int /\ B(p).next \in Int /\ \A q \in g[B(p).next] : q \in Int
      BY <1>2, <3>1, <3>3
    <3>6. \A q \in g[p] : q \in D /\ q >= p
      BY ONLY p \in D, <3>1, <3>3, <3>4, <3>5
    <3>7. QED  BY <3>6
  <2>3. QED  BY <2>1, <2>2
<1>9. D \subseteq Good
  <2> HIDE DEF D, V, Base, base, before, step, Good, measure
  <2>1. GoodFromNearer(D, End(bytes), measure, Good)
    BY ONLY <1>2, <1>8 DEF GoodFromNearer
  <2>2. QED  BY ONLY <2>1, MeasureInduction
<1>10. BoundariesFrom(bytes, start) =
         {start} \cup IF B(start).value = Eof THEN {} ELSE BoundariesFrom(bytes, B(start).next)
  BY <1>1, <1>5, <1>7
<1>11. QED  BY <1>5, <1>9, <1>10 DEF B

\* The keys there are from a position on, in the middle of an escape sequence too.
Rest(bytes, p, state) ==
  LET key == KeyFrom(bytes, p)[state]
  IN  <<key.key>> \o IF key.key = "END_OF_STREAM" THEN <<>> ELSE KeysFrom(bytes, key.next)

\* What is left in terms of what is left behind the next byte.
RestIs(bytes, p, state) ==
  \E byte \in {readByte(bytes, p)} : \E key \in {KeyOf(state, byte.value)} :
    Rest(bytes, p, state) =
      IF key \in Places THEN Rest(bytes, byte.next, key)
      ELSE <<key>> \o IF byte.value = Eof THEN <<>> ELSE Rest(bytes, byte.next, "none")

\* LEMMA.  All keys are what is left from the first byte on.
LEMMA KeysAreRest ==
  ASSUME NEW bytes \in Seq(Bytes), NEW p \in Positions(bytes)
  PROVE  KeysFrom(bytes, p) = Rest(bytes, p, "none")
BY KeysFromFacts DEF Rest

\* LEMMA.  A byte makes a key, or goes on with one.
LEMMA KeysRestFacts ==
  ASSUME NEW bytes \in Seq(Bytes), NEW p \in Positions(bytes), NEW state \in Places
  PROVE  Rest(bytes, p, state) \in Seq(Keys) /\ RestIs(bytes, p, state)
<1> DEFINE byte == readByte(bytes, p)
           place == KeyOf(state, byte.value)
           key == KeyFrom(bytes, p)[state]
           later == KeyFrom(bytes, byte.next)[place]
<1>1. byte.next \in Positions(bytes)
  BY ByteGoesOn
<1>2. key \in KeysRead(bytes) /\ KeyIs(bytes, p, state)
  BY KeyFromFacts
<1>3. key = IF place \in Places THEN [later EXCEPT !.commands = byte.commands \o @]
            ELSE [key |-> place, next |-> byte.next, commands |-> byte.commands]
  BY <1>2 DEF KeyIs
<1>4. place = "END_OF_STREAM" <=> byte.value = Eof
  BY KeyOfFacts
<1>5. place \in Places => later \in KeysRead(bytes)
  BY <1>1, KeyFromFacts
<1>6. Rest(bytes, p, state) \in Seq(Keys)
  <2>1. KeysFrom(bytes, key.next) \in Seq(Keys)
    BY <1>2, KeysFromFacts DEF KeysRead
  <2>2. <<key.key>> \in Seq(Keys)
    BY <1>2 DEF KeysRead
  <2> HIDE DEF key
  <2>3. QED  BY <2>1, <2>2 DEF Rest, key
<1>7. Rest(bytes, p, state) =
        IF place \in Places THEN Rest(bytes, byte.next, place)
        ELSE <<place>> \o IF byte.value = Eof THEN <<>> ELSE Rest(bytes, byte.next, "none")
  <2>1. CASE place \in Places
    <3>1. key.key = later.key /\ key.next = later.next
      <4> HIDE DEF key, later, byte
      <4>1. QED  BY <1>3, <1>5, <2>1 DEF KeysRead
    <3>2. QED  BY <2>1, <3>1 DEF Rest
  <2>2. CASE place \notin Places
    <3>1. key.key = place /\ key.next = byte.next
      <4> HIDE DEF key, later, byte, place
      <4>1. QED  BY <1>3, <2>2
    <3>2. KeysFrom(bytes, byte.next) = Rest(bytes, byte.next, "none")
      BY <1>1, KeysAreRest
    <3>3. Rest(bytes, p, state) = <<key.key>> \o
            IF key.key = "END_OF_STREAM" THEN <<>> ELSE KeysFrom(bytes, key.next)
      BY DEF Rest
    <3> HIDE DEF key, byte, place
    <3>4. QED  BY <1>4, <2>2, <3>1, <3>2, <3>3
  <2>3. QED  BY <2>1, <2>2
<1>8. QED  BY <1>6, <1>7 DEF RestIs

\* Bytes of two users are read alike from related positions: the same byte, and related
\* positions behind it.
ReadAlike(a, b, R) ==
  /\ a \in Seq(Bytes) /\ b \in Seq(Bytes)
  /\ R \subseteq Positions(a) \X Positions(b)
  /\ \A r \in R : \E v \in {readByte(a, r[1])} : \E w \in {readByte(b, r[2])} :
       v.value = w.value /\ (w.value # Eof => <<v.next, w.next>> \in R)

\* LEMMA.  What is read alike is the same keys.
LEMMA SameKeys ==
  ASSUME NEW a, NEW b, NEW R, ReadAlike(a, b, R), NEW r \in R
  PROVE  KeysFrom(a, r[1]) = KeysFrom(b, r[2])
<1> DEFINE measure == [x \in R |-> End(b) - x[2]]
           Same(x) == \A state \in Places : Rest(a, x[1], state) = Rest(b, x[2], state)
           Good == {x \in R : Same(x)}
<1>1. a \in Seq(Bytes) /\ b \in Seq(Bytes) /\ R \subseteq Positions(a) \X Positions(b)
  BY DEF ReadAlike
<1>2. End(b) \in Nat /\ measure \in [R -> 0 .. End(b)]
  BY <1>1 DEF End, Positions
<1>3. ASSUME NEW x \in R, \A y \in R : measure[y] < measure[x] => y \in Good
      PROVE  x \in Good
  <2> DEFINE v == readByte(a, x[1])
             w == readByte(b, x[2])
  <2>1. x[1] \in Positions(a) /\ x[2] \in Positions(b)
    BY <1>1
  <2>2. v.value = w.value /\ (w.value # Eof => <<v.next, w.next>> \in R)
    BY DEF ReadAlike
  <2>3. w.next \in Positions(b) /\ (w.value # Eof => w.next > x[2])
    BY <1>1, <2>1, ByteGoesOn
  <2>4. w.value # Eof => Same(<<v.next, w.next>>)
    <3>1. SUFFICES ASSUME w.value # Eof PROVE <<v.next, w.next>> \in Good
      OBVIOUS
    <3>2. PICK y \in R : y = <<v.next, w.next>>
      BY <2>2, <3>1
    <3>3. y[2] = w.next
      BY <3>2
    <3>4. End(b) \in Int /\ x[2] \in Int /\ w.next \in Int
      BY <1>2, <2>1, <2>3 DEF Positions
    <3> HIDE DEF v, w, Good
    <3>5. measure[y] < measure[x]
      BY <2>3, <3>1, <3>3, <3>4
    <3>6. QED  BY <1>3, <3>2, <3>5
  <2>5. ASSUME NEW state \in Places
        PROVE  Rest(a, x[1], state) = Rest(b, x[2], state)
    <3>1. RestIs(a, x[1], state) /\ RestIs(b, x[2], state)
      BY <1>1, <2>1, KeysRestFacts
    <3>2. KeyOf(state, w.value) \in Places => w.value # Eof
      BY KeyOfFacts DEF Places
    <3>3. "none" \in Places
      BY DEF Places
    <3>4. w.value # Eof => \A place \in Places : Rest(a, v.next, place) = Rest(b, w.next, place)
      BY <2>4
    <3>5. Rest(a, x[1], state) =
            IF KeyOf(state, v.value) \in Places THEN Rest(a, v.next, KeyOf(state, v.value))
            ELSE <<KeyOf(state, v.value)>>
                   \o IF v.value = Eof THEN <<>> ELSE Rest(a, v.next, "none")
      BY <3>1 DEF RestIs
    <3>6. Rest(b, x[2], state) =
            IF KeyOf(state, w.value) \in Places THEN Rest(b, w.next, KeyOf(state, w.value))
            ELSE <<KeyOf(state, w.value)>>
                   \o IF w.value = Eof THEN <<>> ELSE Rest(b, w.next, "none")
      BY <3>1 DEF RestIs
    <3> HIDE DEF v, w
    <3>7. QED  BY <2>2, <3>2, <3>3, <3>4, <3>5, <3>6
  <2>6. QED  BY <2>5
<1>4. R \subseteq Good
  <2> HIDE DEF measure, Good
  <2>1. GoodFromNearer(R, End(b), measure, Good)
    BY ONLY <1>2, <1>3 DEF GoodFromNearer
  <2>2. QED  BY ONLY <2>1, MeasureInduction
<1>5. Rest(a, r[1], "none") = Rest(b, r[2], "none")
  <2>1. r \in Good /\ "none" \in Places
    BY <1>4 DEF Places
  <2>2. QED  BY <2>1
<1>6. r[1] \in Positions(a) /\ r[2] \in Positions(b)
  BY <1>1
<1>7. QED  BY <1>1, <1>5, <1>6, KeysAreRest

-------------------------------------------------------------------------------
(* An arrow after anything                                                 *)

\* What is left ends with an arrow.
Arrow == <<"ARROW_UP">> \o <<"END_OF_STREAM">>

EndsWithArrow(bytes, p) ==
  \A state \in Places : \E before \in Seq(Keys) : Rest(bytes, p, state) = before \o Arrow

\* LEMMA.  It still ends so with a byte before it.
LEMMA ArrowStays ==
  ASSUME NEW bytes \in Seq(Bytes), NEW p \in Positions(bytes),
         NEW byte, byte = readByte(bytes, p), byte.value # Eof, EndsWithArrow(bytes, byte.next)
  PROVE  EndsWithArrow(bytes, p)
<1> SUFFICES ASSUME NEW state \in Places
             PROVE  \E before \in Seq(Keys) : Rest(bytes, p, state) = before \o Arrow
  BY DEF EndsWithArrow
<1> DEFINE key == KeyOf(state, byte.value)
<1>1. RestIs(bytes, p, state) /\ key \in Keys
  BY KeysRestFacts, KeyOfFacts
<1>2. Rest(bytes, p, state) = IF key \in Places THEN Rest(bytes, byte.next, key)
                              ELSE <<key>> \o Rest(bytes, byte.next, "none")
  BY <1>1 DEF RestIs
<1> HIDE DEF key
<1>3. CASE key \in Places
  BY <1>2, <1>3 DEF EndsWithArrow
<1>4. CASE key \notin Places
  <2>1. PICK before \in Seq(Keys) : Rest(bytes, byte.next, "none") = before \o Arrow
    BY DEF EndsWithArrow, Places
  <2>2. <<key>> \in Seq(Keys) /\ Arrow \in Seq(Keys)
    BY <1>1 DEF Arrow, Keys, Arrows
  <2>3. ListsOf(Keys, <<key>>, before, Arrow)
    BY <2>2 DEF ListsOf
  <2>4. (<<key>> \o before) \o Arrow = <<key>> \o (before \o Arrow)
    BY ONLY <2>3, Regroup
  <2>5. <<key>> \o before \in Seq(Keys)
    BY <2>2
  <2>6. QED  BY <1>2, <1>4, <2>1, <2>4, <2>5
<1>5. QED  BY <1>3, <1>4

\* A user who pressed the arrow twice after all else.
Pressed(bytes) == bytes \o Up \o Up

TwoArrows(b, n) ==
  /\ b \in Seq(Bytes) /\ n \in Nat /\ Len(b) = n + 6 /\ End(b) = n + 7
  /\ b[n + 1] = "ESC" /\ b[n + 2] = "[" /\ b[n + 3] = "A"
  /\ b[n + 4] = "ESC" /\ b[n + 5] = "[" /\ b[n + 6] = "A"

\* LEMMA.  The bytes of the arrows are behind all others.
LEMMA PressedFacts ==
  ASSUME NEW bytes \in Seq(Bytes), NEW n, n = Len(bytes), NEW b, b = Pressed(bytes)
  PROVE  TwoArrows(b, n) /\ \A i \in 1 .. n : b[i] = bytes[i]
<1>1. n \in Nat
  OBVIOUS
<1>2. PICK x \in Bytes, y \in Bytes, z \in Bytes : x = "ESC" /\ y = "[" /\ z = "A"
  BY BytesAssumption
<1>3. PICK up \in Seq(Bytes) : up = Up /\ up = <<x, y, z>>
  <2>1. <<x, y, z>> \in Seq(Bytes)
    OBVIOUS
  <2>2. QED  BY <1>2, <2>1 DEF Up
<1> DEFINE six == up \o up
<1>4. b = bytes \o six
  <2>1. ListsOf(Bytes, bytes, up, up)
    BY DEF ListsOf
  <2>2. (bytes \o up) \o up = bytes \o (up \o up)
    BY ONLY <2>1, Regroup
  <2>3. QED  BY <1>3, <2>2 DEF Pressed
<1>5. /\ six \in Seq(Bytes) /\ Len(six) = 6
      /\ six[1] = "ESC" /\ six[2] = "[" /\ six[3] = "A"
      /\ six[4] = "ESC" /\ six[5] = "[" /\ six[6] = "A"
  <2>1. Len(up) = 3 /\ up[1] = x /\ up[2] = y /\ up[3] = z
    BY ONLY <1>3
  <2>2. /\ six \in Seq(Bytes) /\ Len(six) = Len(up) + Len(up)
        /\ \A i \in 1 .. Len(up) + Len(up) :
             six[i] = IF i <= Len(up) THEN up[i] ELSE up[i - Len(up)]
    BY ConcatProperties
  <2> HIDE DEF six
  <2>3. /\ six \in Seq(Bytes) /\ Len(six) = 6
        /\ \A i \in 1 .. 6 : six[i] = IF i <= 3 THEN up[i] ELSE up[i - 3]
    BY ONLY <2>1, <2>2
  <2>4. QED  BY ONLY <1>2, <2>1, <2>3
<1> HIDE DEF six
<1>6. /\ b \in Seq(Bytes) /\ Len(b) = n + Len(six)
      /\ \A i \in 1 .. n + Len(six) : b[i] = IF i <= n THEN bytes[i] ELSE six[i - n]
  <2>1. PICK s \in Seq(Bytes) : s = six
    BY <1>5
  <2>2. /\ bytes \o s \in Seq(Bytes) /\ Len(bytes \o s) = Len(bytes) + Len(s)
        /\ \A i \in 1 .. Len(bytes) + Len(s) :
             (bytes \o s)[i] = IF i <= Len(bytes) THEN bytes[i] ELSE s[i - Len(bytes)]
    BY ONLY ConcatProperties
  <2>3. QED  BY ONLY <1>4, <2>1, <2>2, n = Len(bytes)
<1>7. \A i \in 1 .. 6 : b[n + i] = six[i]
  <2>1. \A i \in 1 .. 6 : n + i \in 1 .. n + 6 /\ ~(n + i <= n) /\ (n + i) - n = i
    BY <1>1
  <2>2. QED  BY <1>5, <1>6, <2>1
<1>8. \A i \in 1 .. n : b[i] = bytes[i]
  <2>1. \A i \in 1 .. n : i \in 1 .. n + 6 /\ i <= n
    BY <1>1
  <2>2. QED  BY <1>5, <1>6, <2>1
<1>9. /\ b[n + 1] = "ESC" /\ b[n + 2] = "[" /\ b[n + 3] = "A"
      /\ b[n + 4] = "ESC" /\ b[n + 5] = "[" /\ b[n + 6] = "A"
  BY <1>5, <1>7
<1>10. End(b) = n + 7
  BY <1>1, <1>5, <1>6 DEF End
<1>11. QED  BY <1>1, <1>5, <1>6, <1>8, <1>9, <1>10 DEF TwoArrows

\* LEMMA.  A byte that is no IAC is read as it is.
LEMMA PlainByte ==
  ASSUME NEW bytes \in Seq(Bytes), NEW p \in 1 .. Len(bytes), bytes[p] # IAC
  PROVE  /\ p \in Positions(bytes) /\ p + 1 \in Positions(bytes)
         /\ readByte(bytes, p) = [value |-> bytes[p], next |-> p + 1, commands |-> <<>>]
         /\ bytes[p] # Eof
<1>1. p < End(bytes) /\ p # End(bytes) /\ p \in Positions(bytes) /\ p + 1 \in Positions(bytes)
  BY DEF End, Positions
<1>2. readEscaped(bytes, p) = [tag |-> "data", value |-> bytes[p], next |-> p + 1]
  BY <1>1 DEF readEscaped
<1>3. readByte(bytes, p) = [value |-> bytes[p], next |-> p + 1, commands |-> <<>>]
  <2>1. ByteIs(bytes, p)
    BY <1>1, ReadByteIs
  <2>2. QED  BY <1>2, <2>1 DEF ByteIs
<1>4. bytes[p] # Eof
  BY BytesAssumption
<1>5. QED  BY <1>1, <1>3, <1>4

\* LEMMA.  A plain byte makes a key, or goes on with one.
LEMMA PlainKey ==
  ASSUME NEW bytes \in Seq(Bytes), NEW p \in 1 .. Len(bytes), bytes[p] # IAC,
         NEW state \in Places
  PROVE  \E key \in {KeyOf(state, bytes[p])} :
           Rest(bytes, p, state) = IF key \in Places THEN Rest(bytes, p + 1, key)
                                   ELSE <<key>> \o Rest(bytes, p + 1, "none")
<1>1. /\ p \in Positions(bytes) /\ bytes[p] # Eof
      /\ readByte(bytes, p) = [value |-> bytes[p], next |-> p + 1, commands |-> <<>>]
  BY PlainByte
<1>2. RestIs(bytes, p, state)
  BY <1>1, KeysRestFacts
<1>3. QED  BY <1>1, <1>2 DEF RestIs

\* Bytes that end with the arrow pressed twice; sub-options are not among them.
ArrowsLast(b, n) == TwoArrows(b, n) /\ \A i \in 1 .. n + 1 : b[i] # "SB"

\* LEMMA.  A byte before the first arrow is not the end, and takes no more than one of it.
LEMMA EscapedBeforeArrows ==
  ASSUME NEW b, NEW n, ArrowsLast(b, n), NEW p \in 1 .. n + 1,
         NEW byte, byte = readEscaped(b, p)
  PROVE  /\ byte.tag \in {"data", "command"} /\ byte.value \in Bytes
         /\ byte.next \in p + 1 .. n + 2
         /\ byte.tag = "command" => byte.value # "SB"
<1>1. /\ n \in Nat /\ p \in 1 .. n + 1 /\ Len(b) = n + 6 /\ End(b) = n + 7
      /\ \A i \in 1 .. n + 6 : b[i] \in Bytes
  BY DEF ArrowsLast, TwoArrows
<1>2. b[n + 1] # IAC
  BY DEF ArrowsLast, TwoArrows, IAC
<1>3. CASE b[p] # IAC
  <2>1. byte = [tag |-> "data", value |-> b[p], next |-> p + 1]
    BY <1>1, <1>3 DEF readEscaped
  <2>2. p \in 1 .. n + 6
    BY <1>1
  <2>3. QED  BY <1>1, <2>1, <2>2
<1>4. CASE b[p] = IAC
  <2>1. p \in 1 .. n /\ p + 1 \in 1 .. n + 1 /\ p + 1 \in 1 .. n + 6
    BY <1>1, <1>2, <1>4
  <2>2. byte = [tag |-> IF b[p + 1] = IAC THEN "data" ELSE "command",
                value |-> b[p + 1], next |-> p + 2]
    BY <1>1, <1>4, <2>1 DEF readEscaped
  <2>3. b[p + 1] # "SB" /\ b[p + 1] \in Bytes
    BY <1>1, <2>1 DEF ArrowsLast, TwoArrows
  <2>4. QED  BY <1>1, <2>1, <2>2, <2>3
<1>5. QED  BY <1>3, <1>4

\* LEMMA.  So is it with a byte that belongs to no command.
LEMMA ByteBeforeArrows ==
  ASSUME NEW b, NEW n, ArrowsLast(b, n), NEW p \in 1 .. n + 2
  PROVE  /\ readByte(b, p).value # Eof
         /\ readByte(b, p).next \in p + 1 .. n + 3
<1> DEFINE D == 1 .. n + 2
           B(q) == readByte(b, q)
           measure == [q \in D |-> n + 2 - q]
           Good == {q \in D : B(q).value # Eof /\ B(q).next \in q + 1 .. n + 3}
<1>1. /\ b \in Seq(Bytes) /\ n \in Nat /\ Len(b) = n + 6 /\ End(b) = n + 7
  BY DEF ArrowsLast, TwoArrows
<1>2. n + 2 \in Nat /\ measure \in [D -> 0 .. n + 2] /\ D \subseteq Positions(b)
  BY <1>1 DEF Positions
<1>3. ASSUME NEW q \in D, \A r \in D : measure[r] < measure[q] => r \in Good
      PROVE  q \in Good
  <2>1. q \in 1 .. n + 2
    OBVIOUS
  <2>2. CASE q = n + 2
    <3>1. q \in 1 .. Len(b) /\ b[q] # IAC
      BY <1>1, <2>1, <2>2 DEF ArrowsLast, TwoArrows, IAC
    <3>2. B(q) = [value |-> b[q], next |-> q + 1, commands |-> <<>>] /\ b[q] # Eof
      BY <1>1, <3>1, PlainByte
    <3>3. B(q).value # Eof /\ B(q).next = q + 1
      BY <3>2
    <3> HIDE DEF B
    <3>4. QED  BY <1>1, <2>2, <3>3
  <2>3. CASE q # n + 2
    <3> DEFINE e == readEscaped(b, q)
               through == ThroughCommand(b, e.value, e.next)
    <3>1. q \in 1 .. n + 1
      BY <1>1, <2>1, <2>3
    <3>2. /\ e.tag \in {"data", "command"} /\ e.value \in Bytes
          /\ e.next \in q + 1 .. n + 2
          /\ e.tag = "command" => e.value # "SB"
      BY <3>1, EscapedBeforeArrows
    <3>3. B(q) = IF e.tag # "command"
                 THEN [value |-> e.value, next |-> e.next, commands |-> <<>>]
                 ELSE IF through.value = Eof
                 THEN [value |-> Eof, next |-> through.next, commands |-> <<>>]
                 ELSE [readByte(b, through.next)
                         EXCEPT !.commands = <<Command(e.value, through.value)>> \o @]
      <4>1. q \in Positions(b)
        BY <1>2
      <4>2. ByteIs(b, q)
        BY <1>1, <4>1, ReadByteIs
      <4>3. QED  BY <4>2 DEF ByteIs
    <3>4. CASE e.tag = "data"
      <4>1. B(q).value = e.value /\ B(q).next = e.next
        BY <3>3, <3>4
      <4> HIDE DEF B, e
      <4>2. B(q).value # Eof
        BY <3>2, <4>1, BytesAssumption
      <4>3. QED  BY <1>1, <2>1, <3>2, <4>1, <4>2
    <3>5. CASE e.tag = "command"
      <4>1. through.value # Eof /\ through.next \in q + 1 .. n + 2
        <5> DEFINE option == readEscaped(b, e.next)
        <5>1. CASE e.value \in {"WILL", "WONT", "DO", "DONT"}
          <6>1. through = [value |-> option.value, next |-> option.next]
            BY <5>1 DEF ThroughCommand
          <6>2. e.next \in 1 .. n + 1
            <7>1. b[q + 1] = e.value /\ e.next = q + 2
              <8>1. q < End(b) - 1 /\ b[q] = IAC
                <9>1. q < End(b) - 1 /\ q # End(b) /\ q < End(b) /\ q # End(b) - 1
                  BY <1>1, <3>1
                <9>2. QED  BY <3>5, <9>1 DEF readEscaped
              <8>2. e = [tag |-> IF b[q + 1] = IAC THEN "data" ELSE "command",
                         value |-> b[q + 1], next |-> q + 2]
                BY <1>1, <3>1, <8>1 DEF readEscaped
              <8>3. QED  BY <8>2
            <7>2. q # n
              BY <5>1, <7>1 DEF ArrowsLast, TwoArrows
            <7>3. q # n + 1
              <8>1. n + 1 < End(b)
                BY <1>1
              <8>2. b[n + 1] # IAC /\ n + 1 # End(b)
                BY <1>1 DEF ArrowsLast, TwoArrows, IAC
              <8>3. q = n + 1 => e.tag = "data"
                BY <8>1, <8>2 DEF readEscaped
              <8>4. QED  BY <3>5, <8>3
            <7> HIDE DEF e
            <7>4. QED  BY <1>1, <3>1, <7>1, <7>2, <7>3
          <6>3. option.value \in Bytes /\ option.next \in e.next + 1 .. n + 2
            BY <6>2, EscapedBeforeArrows
          <6>4. through.value # Eof
            BY <6>1, <6>3, BytesAssumption
          <6>5. through.next = option.next
            BY <6>1
          <6> HIDE DEF e, option, through
          <6>6. QED  BY <1>1, <2>1, <3>2, <6>3, <6>4, <6>5
        <5>2. CASE e.value \notin {"WILL", "WONT", "DO", "DONT"}
          <6>1. through = [value |-> "none", next |-> e.next]
            BY <3>2, <3>5, <5>2 DEF ThroughCommand
          <6>2. through.value # Eof /\ through.next = e.next
            BY <6>1, BytesAssumption
          <6>3. QED  BY <3>2, <6>2
        <5>3. QED  BY <5>1, <5>2
      <4> HIDE DEF e, through
      <4>2. through.next \in D /\ measure[through.next] < measure[q]
        BY <1>1, <2>1, <4>1
      <4>3. through.next \in Good
        BY <1>3, <4>2
      <4>4. PICK later \in BytesRead(b) : later = B(through.next)
        BY <1>1, <1>2, <4>2, ReadByteFacts
      <4>5. B(q) = [later EXCEPT !.commands = <<Command(e.value, through.value)>> \o @]
        BY <3>3, <3>5, <4>1, <4>4
      <4>6. B(q).value = later.value /\ B(q).next = later.next
        BY <4>5 DEF BytesRead
      <4>7. later.value # Eof /\ later.next \in through.next + 1 .. n + 3
        BY <4>3, <4>4
      <4> HIDE DEF B
      <4>8. B(q).value # Eof /\ B(q).next \in through.next + 1 .. n + 3
        BY <4>6, <4>7
      <4>9. B(q).next \in q + 1 .. n + 3
        BY ONLY <1>1, <2>1, <4>1, <4>8
      <4>10. QED  BY <2>1, <4>8, <4>9
    <3>6. QED  BY <3>2, <3>4, <3>5
  <2>4. QED  BY <2>2, <2>3
<1>4. D \subseteq Good
  <2> HIDE DEF measure, Good, D
  <2>1. GoodFromNearer(D, n + 2, measure, Good)
    BY ONLY <1>2, <1>3 DEF GoodFromNearer
  <2>2. QED  BY ONLY <2>1, MeasureInduction
<1>5. QED  BY <1>4

\* LEMMA.  An arrow whose bytes come from the first on is the last key.
LEMMA LastArrow ==
  ASSUME NEW b, NEW n, ArrowsLast(b, n)
  PROVE  Rest(b, n + 4, "none") = Arrow
<1>1. /\ b \in Seq(Bytes) /\ n \in Nat /\ Len(b) = n + 6 /\ End(b) = n + 7
      /\ n + 4 \in 1 .. Len(b) /\ n + 5 \in 1 .. Len(b) /\ n + 6 \in 1 .. Len(b)
      /\ n + 7 \in Positions(b)
  BY DEF ArrowsLast, TwoArrows, Positions
<1>2. /\ b[n + 4] = "ESC" /\ b[n + 5] = "[" /\ b[n + 6] = "A"
      /\ b[n + 4] # IAC /\ b[n + 5] # IAC /\ b[n + 6] # IAC
  BY DEF ArrowsLast, TwoArrows, IAC
<1>3. "ESC" # Eof /\ "[" # Eof /\ "A" # Eof
  BY BytesAssumption
<1>4. {"none", "escape", "csi"} = Places
  BY DEF Places
<1>5. KeyOf("none", "ESC") = "escape"
  BY <1>3 DEF KeyOf, Printable
<1>6. KeyOf("escape", "[") = "csi"
  BY <1>3 DEF KeyOf
<1>7. KeyOf("csi", "A") = "ARROW_UP"
  BY <1>3 DEF KeyOf, Arrows
<1>8. Rest(b, n + 4, "none") = Rest(b, n + 5, "escape")
  <2>1. n + 4 + 1 = n + 5
    BY <1>1
  <2>2. \E key \in {KeyOf("none", b[n + 4])} :
          Rest(b, n + 4, "none") = IF key \in Places THEN Rest(b, n + 4 + 1, key)
                                   ELSE <<key>> \o Rest(b, n + 4 + 1, "none")
    BY <1>1, <1>2, <1>4, PlainKey
  <2>3. QED  BY ONLY <1>2, <1>4, <1>5, <2>1, <2>2
<1>9. Rest(b, n + 5, "escape") = Rest(b, n + 6, "csi")
  <2>1. n + 5 + 1 = n + 6
    BY <1>1
  <2>2. \E key \in {KeyOf("escape", b[n + 5])} :
          Rest(b, n + 5, "escape") = IF key \in Places THEN Rest(b, n + 5 + 1, key)
                                     ELSE <<key>> \o Rest(b, n + 5 + 1, "none")
    BY <1>1, <1>2, <1>4, PlainKey
  <2>3. QED  BY ONLY <1>2, <1>4, <1>6, <2>1, <2>2
<1>10. Rest(b, n + 6, "csi") = <<"ARROW_UP">> \o Rest(b, n + 7, "none")
  <2>1. n + 6 + 1 = n + 7
    BY <1>1
  <2>2. "ARROW_UP" \notin Places
    BY DEF Places
  <2>3. \E key \in {KeyOf("csi", b[n + 6])} :
          Rest(b, n + 6, "csi") = IF key \in Places THEN Rest(b, n + 6 + 1, key)
                                  ELSE <<key>> \o Rest(b, n + 6 + 1, "none")
    BY <1>1, <1>2, <1>4, PlainKey
  <2>4. QED  BY <1>2, <1>7, <2>1, <2>2, <2>3
<1>11. Rest(b, n + 7, "none") = <<"END_OF_STREAM">>
  <2>1. readEscaped(b, n + 7) = AtEof(b)
    BY <1>1 DEF readEscaped
  <2>2. ByteIs(b, n + 7) /\ RestIs(b, n + 7, "none")
    BY <1>1, <1>4, ReadByteIs, KeysRestFacts
  <2>3. readByte(b, n + 7).value = Eof
    BY <2>1, <2>2 DEF ByteIs, AtEof
  <2>4. KeyOf("none", Eof) = "END_OF_STREAM"
    BY DEF KeyOf
  <2>5. Rest(b, n + 7, "none") = <<"END_OF_STREAM">> \o <<>>
    BY <1>4, <2>2, <2>3, <2>4 DEF RestIs
  <2>6. QED  BY <2>5
<1>12. <<"ARROW_UP">> \o <<"END_OF_STREAM">> = Arrow
  BY DEF Arrow
<1>13. QED  BY <1>8, <1>9, <1>10, <1>11, <1>12

\* LEMMA.  Whatever the place in an escape sequence, the last byte of one arrow leads to the
\* first of the next.
LEMMA ArrowAfterArrow ==
  ASSUME NEW b, NEW n, ArrowsLast(b, n)
  PROVE  EndsWithArrow(b, n + 3)
<1> SUFFICES ASSUME NEW state \in Places
             PROVE  \E before \in Seq(Keys) : Rest(b, n + 3, state) = before \o Arrow
  BY DEF EndsWithArrow
<1>1. b \in Seq(Bytes) /\ n \in Nat /\ n + 3 \in 1 .. Len(b) /\ n + 3 + 1 = n + 4
  BY DEF ArrowsLast, TwoArrows
<1>2. b[n + 3] = "A" /\ b[n + 3] # IAC
  BY DEF ArrowsLast, TwoArrows, IAC
<1>3. Rest(b, n + 4, "none") = Arrow
  BY LastArrow
<1> DEFINE key == KeyOf(state, "A")
<1>4. Rest(b, n + 3, state) = IF key \in Places THEN Rest(b, n + 4, key)
                              ELSE <<key>> \o Rest(b, n + 4, "none")
  <2>1. \E k \in {KeyOf(state, b[n + 3])} :
          Rest(b, n + 3, state) = IF k \in Places THEN Rest(b, n + 3 + 1, k)
                                  ELSE <<k>> \o Rest(b, n + 3 + 1, "none")
    BY <1>1, <1>2, PlainKey
  <2>2. QED  BY <1>1, <1>2, <2>1
<1>5. key \in Places => key = "none"
  <2>1. "A" # Eof /\ "A" \in Printable /\ "A" # "["
    BY BytesAssumption DEF Printable
  <2>2. CASE state = "none"
    BY <2>1, <2>2 DEF KeyOf, Places
  <2>3. CASE state = "escape"
    BY <2>1, <2>3 DEF KeyOf, Places
  <2>4. CASE state = "csi"
    BY <2>1, <2>4 DEF KeyOf, Places, Arrows
  <2>5. QED  BY <2>2, <2>3, <2>4 DEF Places
<1>6. key \in Keys
  BY KeyOfFacts
<1> HIDE DEF key
<1>7. CASE key \in Places
  <2>1. Rest(b, n + 3, state) = <<>> \o Arrow
    BY <1>3, <1>4, <1>5, <1>7 DEF Arrow
  <2>2. <<>> \in Seq(Keys)
    OBVIOUS
  <2>3. QED  BY <2>1, <2>2
<1>8. CASE key \notin Places
  <2>1. Rest(b, n + 3, state) = <<key>> \o Arrow
    BY <1>3, <1>4, <1>8
  <2>2. <<key>> \in Seq(Keys)
    BY <1>6
  <2>3. QED  BY <2>1, <2>2
<1>9. QED  BY <1>7, <1>8

\* LEMMA.  So does any byte before.
LEMMA ArrowInTheEnd ==
  ASSUME NEW b, NEW n, ArrowsLast(b, n)
  PROVE  EndsWithArrow(b, 1)
<1> DEFINE D == 1 .. n + 3
           measure == [q \in D |-> n + 3 - q]
           Good == {q \in D : EndsWithArrow(b, q)}
<1>1. b \in Seq(Bytes) /\ n \in Nat /\ End(b) = n + 7
  BY DEF ArrowsLast, TwoArrows
<1>2. n + 3 \in Nat /\ measure \in [D -> 0 .. n + 3]
  BY <1>1
<1>3. ASSUME NEW q \in D, \A r \in D : measure[r] < measure[q] => r \in Good
      PROVE  q \in Good
  <2>1. CASE q = n + 3
    BY <2>1, ArrowAfterArrow
  <2>2. CASE q # n + 3
    <3>1. q \in 1 .. n + 2 /\ q \in Positions(b)
      BY <1>1, <2>2 DEF Positions
    <3>2. PICK byte : byte = readByte(b, q)
      OBVIOUS
    <3>3. byte.value # Eof /\ byte.next \in q + 1 .. n + 3
      BY <3>1, <3>2, ByteBeforeArrows
    <3>4. byte.next \in D /\ measure[byte.next] < measure[q]
      BY <1>1, <3>1, <3>3
    <3>5. EndsWithArrow(b, byte.next)
      BY <1>3, <3>4
    <3>6. EndsWithArrow(b, q)
      BY <1>1, <3>1, <3>2, <3>3, <3>5, ArrowStays
    <3>7. QED  BY <3>6
  <2>3. QED  BY <2>1, <2>2
<1>4. D \subseteq Good
  <2> HIDE DEF measure, Good, D
  <2>1. GoodFromNearer(D, n + 3, measure, Good)
    BY ONLY <1>2, <1>3 DEF GoodFromNearer
  <2>2. QED  BY ONLY <2>1, MeasureInduction
<1>5. 1 \in D
  BY <1>1
<1>6. QED  BY <1>4, <1>5

\* LEMMA.  The arrow pressed twice is the last key, whatever came before.
LEMMA ArrowTwice ==
  ASSUME NEW bytes \in Seq(Bytes), \A i \in DOMAIN bytes : bytes[i] # "SB"
  PROVE  \A keys \in {KeysFrom(bytes \o Up \o Up, 1)} : keys[Len(keys) - 1] = "ARROW_UP"
<1> DEFINE b == bytes \o Up \o Up
           n == Len(bytes)
<1> HIDE DEF n
<1>1. ArrowsLast(b, n)
  <2>1. b = Pressed(bytes)
    BY DEF Pressed
  <2> HIDE DEF b
  <2>2. TwoArrows(b, n) /\ \A i \in 1 .. n : b[i] = bytes[i]
    BY <2>1, PressedFacts DEF n
  <2>3. \A i \in 1 .. n : bytes[i] # "SB"
    BY DEF n
  <2>4. \A i \in 1 .. n + 1 : b[i] # "SB"
    <3>1. \A i \in 1 .. n + 1 : i \in 1 .. n \/ i = n + 1
      BY <2>2 DEF TwoArrows
    <3>2. b[n + 1] # "SB"
      BY <2>2 DEF TwoArrows
    <3>3. QED  BY <2>2, <2>3, <3>1, <3>2
  <2>5. QED  BY <2>2, <2>4 DEF ArrowsLast
<1> HIDE DEF b, n
<1>2. b \in Seq(Bytes) /\ 1 \in Positions(b)
  BY <1>1 DEF ArrowsLast, TwoArrows, Positions
<1>3. PICK before \in Seq(Keys) : Rest(b, 1, "none") = before \o Arrow
  BY <1>1, ArrowInTheEnd DEF EndsWithArrow, Places
<1>4. KeysFrom(b, 1) = before \o Arrow
  BY <1>2, <1>3, KeysAreRest
<1>5. (before \o Arrow)[Len(before \o Arrow) - 1] = "ARROW_UP"
  <2>1. PICK up \in Keys, end \in Keys : up = "ARROW_UP" /\ end = "END_OF_STREAM"
    BY DEF Keys, Arrows
  <2>2. Arrow = <<up>> \o <<end>>
    BY <2>1 DEF Arrow
  <2>3. PICK arrow \in Seq(Keys) : arrow = Arrow /\ Len(arrow) = 2 /\ arrow[1] = up
    <3>1. ASSUME NEW S, NEW x \in S, NEW y \in S
          PROVE  /\ <<x>> \o <<y>> \in Seq(S) /\ Len(<<x>> \o <<y>>) = 2
                 /\ (<<x>> \o <<y>>)[1] = x
      <4>1. <<x>> \in Seq(S) /\ <<y>> \in Seq(S)
        OBVIOUS
      <4>2. QED  BY <4>1
    <3>2. QED  BY ONLY <2>2, <3>1, up \in Keys, end \in Keys
  <2>5. /\ Len(before \o arrow) = Len(before) + 2
        /\ (before \o arrow)[Len(before) + 1] = up
    <3>1. ASSUME NEW S, NEW s \in Seq(S), NEW t \in Seq(S), Len(t) = 2
          PROVE  Len(s \o t) = Len(s) + 2 /\ (s \o t)[Len(s) + 1] = t[1]
      <4>1. PICK m \in Nat : m = Len(s)
        OBVIOUS
      <4>2. /\ Len(s \o t) = m + 2
            /\ \A i \in 1 .. m + 2 : (s \o t)[i] = IF i <= m THEN s[i] ELSE t[i - m]
        <5>1. /\ Len(s \o t) = Len(s) + Len(t)
              /\ \A i \in 1 .. Len(s) + Len(t) :
                   (s \o t)[i] = IF i <= Len(s) THEN s[i] ELSE t[i - Len(s)]
          BY ConcatProperties
        <5>2. QED  BY ONLY <4>1, <5>1, Len(t) = 2
      <4>3. m + 1 \in 1 .. m + 2 /\ ~(m + 1 <= m) /\ (m + 1) - m = 1
        BY ONLY m \in Nat
      <4>4. QED  BY ONLY <4>1, <4>2, <4>3
    <3>2. QED  BY ONLY <2>3, <3>1, before \in Seq(Keys), arrow \in Seq(Keys)
  <2>4. Len(before) + 2 - 1 = Len(before) + 1
    OBVIOUS
  <2>6. QED  BY <2>1, <2>3, <2>4, <2>5
<1>6. QED  BY <1>4, <1>5 DEF b

-------------------------------------------------------------------------------
(* A command in the middle of keys                                         *)

\* The bytes of b from lo up to hi are in a as well, n places on.
SameBytes(a, b, n, lo, hi) ==
  /\ a \in Seq(Bytes) /\ b \in Seq(Bytes) /\ n \in Nat
  /\ lo \in Positions(b) /\ hi \in Positions(b) /\ hi + n \in Positions(a)
  /\ \A i \in lo .. hi - 1 : a[i + n] = b[i]

ToEnd(a, b, n, hi) == hi = End(b) /\ hi + n = End(a)

\* What is read of them stays among them.
Within(a, b, n, hi, more, next) == ToEnd(a, b, n, hi) \/ (more /\ next <= hi)

\* LEMMA.  The numbers of alike bytes.
LEMMA AlikeNumbers ==
  ASSUME NEW a, NEW b, NEW n, NEW lo, NEW hi, SameBytes(a, b, n, lo, hi), NEW p \in lo .. hi
  PROVE  /\ a \in Seq(Bytes) /\ b \in Seq(Bytes) /\ n \in Nat
         /\ End(a) = Len(a) + 1 /\ End(b) = Len(b) + 1 /\ Len(a) \in Nat /\ Len(b) \in Nat
         /\ p \in 1 .. End(b) /\ p \in Positions(b)
         /\ p + n \in 1 .. End(a) /\ p + n \in Positions(a)
         /\ lo \in 1 .. End(b) /\ hi \in 1 .. End(b) /\ hi + n \in 1 .. End(a)
BY DEF SameBytes, End, Positions

\* LEMMA.  SameBytes bytes are read alike.
LEMMA EscapedAlike ==
  ASSUME NEW a, NEW b, NEW n, NEW lo, NEW hi, SameBytes(a, b, n, lo, hi), NEW p \in lo .. hi,
         NEW v, v = readEscaped(a, p + n), NEW w, w = readEscaped(b, p),
         Within(a, b, n, hi, w.tag # "eof", w.next)
  PROVE  /\ v.tag = w.tag /\ v.value = w.value /\ v.next = w.next + n
         /\ w.next \in p .. hi
<1>1. /\ a \in Seq(Bytes) /\ b \in Seq(Bytes) /\ n \in Nat /\ p \in Positions(b)
      /\ lo \in 1 .. End(b) /\ hi \in 1 .. End(b) /\ hi + n \in 1 .. End(a)
      /\ End(a) \in Nat /\ End(b) \in Nat /\ p \in Nat
  BY AlikeNumbers DEF Positions
<1>2. /\ w.next \in 1 .. End(b) /\ w.next >= p /\ (w.tag # "eof" => w.next > p)
  BY <1>1, EscapedFacts DEF Positions
<1>3. \A i \in lo .. hi - 1 : a[i + n] = b[i]
  BY DEF SameBytes
<1>4. w.next \in p .. hi
  BY <1>1, <1>2 DEF Within, ToEnd
<1>5. ToEnd(a, b, n, hi) \/ w.tag # "eof"
  BY DEF Within
<1>6. CASE p = hi
  <2>1. hi = End(b) /\ hi + n = End(a)
    BY <1>1, <1>2, <1>4, <1>5, <1>6 DEF ToEnd
  <2>2. v = AtEof(a) /\ w = AtEof(b)
    <3>1. /\ p = End(b) /\ p + n = End(a)
          /\ ~(p < End(b)) /\ ~(p < End(b) - 1) /\ p # End(b) - 1
          /\ ~(p + n < End(a)) /\ ~(p + n < End(a) - 1) /\ p + n # End(a) - 1
      BY <1>1, <1>6, <2>1
    <3>2. QED  BY <3>1 DEF readEscaped
  <2>3. QED  BY <1>4, <2>1, <2>2 DEF AtEof
<1>7. CASE p < hi /\ b[p] # IAC
  <2>1. a[p + n] # IAC
    <3>1. p \in lo .. hi - 1
      BY <1>1, <1>7
    <3>2. QED  BY <1>3, <1>7, <3>1
  <2>2. p < End(b) /\ p + n < End(a) /\ p # End(b) /\ p + n # End(a)
    BY <1>1, <1>7
  <2>3. /\ v = [tag |-> "data", value |-> a[p + n], next |-> p + n + 1]
        /\ w = [tag |-> "data", value |-> b[p], next |-> p + 1]
    BY <1>7, <2>1, <2>2 DEF readEscaped
  <2>4. a[p + n] = b[p]
    <3>1. p \in lo .. hi - 1
      BY <1>1, <1>7
    <3>2. QED  BY <1>3, <3>1
  <2>5. p + n + 1 = p + 1 + n
    BY <1>1
  <2>6. QED  BY <1>4, <2>3, <2>4, <2>5
<1>8. CASE p < hi /\ b[p] = IAC
  <2>1. a[p + n] = IAC
    <3>1. p \in lo .. hi - 1
      BY <1>1, <1>8
    <3>2. QED  BY <1>3, <1>8, <3>1
  <2>2. CASE p = hi - 1
    <3>1. hi = End(b) /\ hi + n = End(a)
      <4>1. CASE p = End(b) - 1
        <5>1. p # End(b)
          BY <1>1, <4>1
        <5>2. w = AtEof(b)
          BY <1>8, <4>1, <5>1 DEF readEscaped
        <5>3. QED  BY <1>5, <5>2 DEF ToEnd, AtEof
      <4>2. CASE p # End(b) - 1
        <5>1. p < End(b) - 1 /\ p # End(b)
          BY <1>1, <2>2, <4>2
        <5>2. w = [tag |-> IF b[p + 1] = IAC THEN "data" ELSE "command",
                   value |-> b[p + 1], next |-> p + 2]
          BY <1>8, <5>1 DEF readEscaped
        <5>3. w.next = p + 2
          BY <5>2
        <5>4. QED  BY <1>1, <1>4, <2>2, <5>3
      <4>3. QED  BY <4>1, <4>2
    <3>2. p # End(b) /\ p + n # End(a) /\ p = End(b) - 1 /\ p + n = End(a) - 1
      BY <1>1, <2>2, <3>1
    <3>3. w = AtEof(b)
      BY <1>8, <3>2 DEF readEscaped
    <3>4. v = AtEof(a)
      <4>1. ~(p + n < End(a) - 1)
        BY <1>1, <3>2
      <4>2. QED  BY <2>1, <3>2, <4>1 DEF readEscaped
    <3>5. QED  BY <1>4, <3>1, <3>3, <3>4 DEF AtEof
  <2>3. CASE p # hi - 1
    <3>1. p < End(b) - 1 /\ p + n < End(a) - 1 /\ p + 1 \in lo .. hi - 1
      BY <1>1, <1>8, <2>3
    <3>2. p # End(b) /\ p + n # End(a)
      BY <1>1, <3>1
    <3>3. a[p + 1 + n] = b[p + 1] /\ p + 1 + n = p + n + 1 /\ p + 2 + n = p + n + 2
      BY <1>1, <1>3, <3>1
    <3>4. w = [tag |-> IF b[p + 1] = IAC THEN "data" ELSE "command",
               value |-> b[p + 1], next |-> p + 2]
      BY <1>8, <3>1, <3>2 DEF readEscaped
    <3>5. v = [tag |-> IF a[p + n + 1] = IAC THEN "data" ELSE "command",
               value |-> a[p + n + 1], next |-> p + n + 2]
      BY <2>1, <3>1, <3>2 DEF readEscaped
    <3>6. QED  BY <1>4, <3>3, <3>4, <3>5
  <2>4. QED  BY <2>2, <2>3
<1>9. p = hi \/ p < hi
  BY <1>1, AlikeNumbers
<1>10. QED  BY <1>6, <1>7, <1>8, <1>9

EndIs(bytes, p) ==
  \E byte \in {readEscaped(bytes, p)} :
    SubOptionsEnd(bytes, p) = IF byte.tag = "eof" \/ EndsSubOptions(byte) THEN byte
                              ELSE SubOptionsEnd(bytes, byte.next)

\* LEMMA.  The end of sub-options in terms of those further on.
LEMMA SubOptionsEndIs ==
  ASSUME NEW bytes \in Seq(Bytes), NEW p \in Positions(bytes)
  PROVE  /\ EndIs(bytes, p) /\ SubOptionsEnd(bytes, p).next >= p
         /\ SubOptionsEnd(bytes, p).next \in Positions(bytes)
BY SubOptionsEndFacts DEF EndIs

SameReading(v, w, n, p, hi) ==
  v.value = w.value /\ v.next = w.next + n /\ w.next \in p .. hi

\* LEMMA.  Sub-options end alike in alike bytes.
LEMMA EndAlike ==
  ASSUME NEW a, NEW b, NEW n, NEW lo, NEW hi, SameBytes(a, b, n, lo, hi), NEW p \in lo .. hi,
         NEW w, w = SubOptionsEnd(b, p), Within(a, b, n, hi, w.tag # "eof", w.next)
  PROVE  \E v \in {SubOptionsEnd(a, p + n)} : v.tag = w.tag /\ SameReading(v, w, n, p, hi)
<1> DEFINE D == lo .. hi
           V(q) == SubOptionsEnd(a, q + n)
           W(q) == SubOptionsEnd(b, q)
           Good == {q \in D : Within(a, b, n, hi, W(q).tag # "eof", W(q).next)
                      => V(q).tag = W(q).tag /\ SameReading(V(q), W(q), n, q, hi)}
           measure == [q \in D |-> hi - q]
<1>1. /\ a \in Seq(Bytes) /\ b \in Seq(Bytes) /\ n \in Nat /\ lo \in Nat /\ hi \in Nat
      /\ \A q \in D : q \in Positions(b) /\ q + n \in Positions(a)
  BY AlikeNumbers
<1>2. lo >= 0 /\ measure \in [D -> 0 .. hi]
  BY <1>1
<1>3. ASSUME NEW q \in D, \A r \in D : measure[r] < measure[q] => r \in Good,
             Within(a, b, n, hi, W(q).tag # "eof", W(q).next)
      PROVE  V(q).tag = W(q).tag /\ SameReading(V(q), W(q), n, q, hi)
  <2> DEFINE e == readEscaped(b, q)
             d == readEscaped(a, q + n)
  <2>1. q \in Positions(b) /\ q + n \in Positions(a)
    BY <1>1
  <2>2. /\ V(q) = IF d.tag = "eof" \/ EndsSubOptions(d) THEN d ELSE SubOptionsEnd(a, d.next)
        /\ W(q) = IF e.tag = "eof" \/ EndsSubOptions(e) THEN e ELSE W(e.next)
    BY <1>1, <2>1, SubOptionsEndIs DEF EndIs
  <2>3. e.next \in Positions(b) /\ (e.tag # "eof" => e.next > q)
    BY <1>1, <2>1, EscapedFacts
  <2>4. W(e.next).next \in Positions(b) /\ W(e.next).next >= e.next
    BY <1>1, <2>3, SubOptionsEndIs
  <2>5. Within(a, b, n, hi, e.tag # "eof", e.next)
    <3> HIDE DEF W, e
    <3>1. e.next \in Int /\ W(e.next).next \in Int /\ hi \in Int
      BY <1>1, <2>3, <2>4 DEF Positions
    <3>2. ToEnd(a, b, n, hi) \/ (W(q).tag # "eof" /\ W(q).next <= hi)
      BY <1>3 DEF Within
    <3>3. CASE e.tag = "eof" \/ EndsSubOptions(e)
      BY <2>2, <3>2, <3>3 DEF Within
    <3>4. CASE ~(e.tag = "eof" \/ EndsSubOptions(e))
      BY <2>2, <2>4, <3>1, <3>2, <3>4 DEF Within
    <3>5. QED  BY <3>3, <3>4
  <2>6. d.tag = e.tag /\ d.value = e.value /\ d.next = e.next + n /\ e.next \in q .. hi
    BY <2>5, EscapedAlike
  <2>7. EndsSubOptions(d) <=> EndsSubOptions(e)
    BY <2>6 DEF EndsSubOptions
  <2>8. CASE e.tag = "eof" \/ EndsSubOptions(e)
    <3>1. V(q) = d /\ W(q) = e
      BY <2>2, <2>6, <2>7, <2>8
    <3> HIDE DEF V, W, d, e
    <3>2. QED  BY <2>6, <3>1 DEF SameReading
  <2>9. CASE ~(e.tag = "eof" \/ EndsSubOptions(e))
    <3>1. V(q) = V(e.next) /\ W(q) = W(e.next)
      BY <2>2, <2>6, <2>7, <2>9
    <3> HIDE DEF V, W, d, e
    <3>2. e.next \in D /\ measure[e.next] < measure[q]
      BY <1>1, <2>3, <2>6, <2>9
    <3>3. V(e.next).tag = W(e.next).tag /\ SameReading(V(e.next), W(e.next), n, e.next, hi)
      <4>1. e.next \in Good
        BY <1>3, <3>2
      <4>2. Within(a, b, n, hi, W(e.next).tag # "eof", W(e.next).next)
        BY <1>3, <3>1
      <4>3. QED  BY <4>1, <4>2
    <3>4. \A x \in e.next .. hi : x \in q .. hi
      BY <1>1, <2>6
    <3>5. QED  BY <3>1, <3>3, <3>4 DEF SameReading
  <2>10. QED  BY <2>8, <2>9
<1>4. D \subseteq Good
  <2>1. \A q \in D : (\A r \in D : measure[r] < measure[q] => r \in Good) => q \in Good
    <3> HIDE DEF measure, V, W
    <3>1. QED  BY <1>3
  <2> HIDE DEF measure, Good, D
  <2>2. GoodFromNearer(D, hi, measure, Good)
    BY ONLY <1>1, <1>2, <2>1 DEF GoodFromNearer
  <2>3. QED  BY ONLY <2>2, MeasureInduction
<1>5. QED  BY <1>4

\* LEMMA.  Commands go on alike in alike bytes.
LEMMA ThroughAlike ==
  ASSUME NEW a, NEW b, NEW n, NEW lo, NEW hi, SameBytes(a, b, n, lo, hi), NEW p \in lo .. hi,
         NEW type, NEW w, w = ThroughCommand(b, type, p),
         Within(a, b, n, hi, w.value # Eof, w.next)
  PROVE  \E v \in {ThroughCommand(a, type, p + n)} : SameReading(v, w, n, p, hi)
<1> DEFINE v == ThroughCommand(a, type, p + n)
           e == readEscaped(b, p)
           d == readEscaped(a, p + n)
<1>1. /\ a \in Seq(Bytes) /\ b \in Seq(Bytes) /\ n \in Nat /\ lo \in Nat /\ hi \in Nat
      /\ p \in Positions(b) /\ p + n \in Positions(a) /\ p \in Nat
  BY AlikeNumbers DEF Positions
<1>2. /\ e.next \in Positions(b) /\ e.next >= p
      /\ e.tag = "eof" => e.value = Eof
  BY <1>1, EscapedFacts
<1>3. Within(a, b, n, hi, e.tag # "eof", e.next)
        => /\ d.tag = e.tag /\ d.value = e.value /\ d.next = e.next + n
           /\ e.next \in p .. hi
  BY EscapedAlike
<1>4. ToEnd(a, b, n, hi) \/ (w.value # Eof /\ w.next <= hi)
  BY DEF Within
<1>5. CASE type \in {"WILL", "WONT", "DO", "DONT"}
  <2>1. /\ w = [value |-> e.value, next |-> e.next]
        /\ v = [value |-> d.value, next |-> d.next]
    BY <1>5 DEF ThroughCommand
  <2>2. w.value = e.value /\ w.next = e.next /\ v.value = d.value /\ v.next = d.next
    BY <2>1
  <2> HIDE DEF v, e, d
  <2>3. Within(a, b, n, hi, e.tag # "eof", e.next)
    BY <1>2, <1>4, <2>2 DEF Within
  <2>4. QED  BY <1>3, <2>2, <2>3 DEF SameReading, v
<1>6. CASE type = "SB"
  <2> DEFINE x == SubOptionsEnd(b, e.next)
             y == SubOptionsEnd(a, d.next)
  <2>1. /\ w = IF e.tag = "eof" THEN [value |-> Eof, next |-> e.next]
               ELSE [value |-> IF x.tag = "eof" THEN Eof ELSE e.value, next |-> x.next]
        /\ v = IF d.tag = "eof" THEN [value |-> Eof, next |-> d.next]
               ELSE [value |-> IF y.tag = "eof" THEN Eof ELSE d.value, next |-> y.next]
    BY <1>6 DEF ThroughCommand
  <2>2. x.next >= e.next /\ x.next \in Positions(b)
    BY <1>1, <1>2, SubOptionsEndIs
  <2>3. e.next \in Int /\ x.next \in Int
    BY <1>2, <2>2 DEF Positions
  <2>4. CASE e.tag = "eof"
    <3>1. w.value = Eof /\ w.next = e.next
      BY <2>1, <2>4
    <3>2. Within(a, b, n, hi, e.tag # "eof", e.next)
      BY <1>4, <3>1 DEF Within
    <3>3. d.tag = "eof"
      BY <1>3, <2>4, <3>2
    <3>4. v.value = Eof /\ v.next = d.next
      BY <2>1, <3>3
    <3> HIDE DEF v, d, e
    <3>5. QED  BY <1>3, <3>1, <3>2, <3>4 DEF SameReading, v
  <2>5. CASE e.tag # "eof"
    <3>1. w.value = (IF x.tag = "eof" THEN Eof ELSE e.value) /\ w.next = x.next
      BY <2>1, <2>5
    <3> HIDE DEF v, d, e, x, y
    <3>2. Within(a, b, n, hi, x.tag # "eof", x.next)
      BY <1>4, <3>1 DEF Within
    <3>3. Within(a, b, n, hi, e.tag # "eof", e.next)
      BY <1>1, <1>4, <2>2, <2>3, <2>5, <3>1 DEF Within
    <3>4. /\ d.tag = e.tag /\ d.value = e.value /\ d.next = e.next + n
          /\ e.next \in p .. hi
      BY <1>3, <3>3
    <3>5. e.next \in lo .. hi
      BY <1>1, <3>4
    <3>6. y.tag = x.tag /\ SameReading(y, x, n, e.next, hi)
      BY <3>2, <3>4, <3>5, EndAlike DEF x, y
    <3>7. v.value = (IF y.tag = "eof" THEN Eof ELSE d.value) /\ v.next = y.next
      BY <2>1, <2>5, <3>4
    <3>8. \A z \in e.next .. hi : z \in p .. hi
      BY <1>1, <3>4
    <3>9. QED  BY <3>1, <3>4, <3>6, <3>7, <3>8 DEF SameReading, v
  <2>6. QED  BY <2>4, <2>5
<1>7. CASE type \notin {"WILL", "WONT", "DO", "DONT", "SB"}
  <2>1. w = [value |-> "none", next |-> p] /\ v = [value |-> "none", next |-> p + n]
    BY <1>7 DEF ThroughCommand
  <2>2. w.value = "none" /\ v.value = "none" /\ w.next = p /\ v.next = p + n /\ p \in p .. hi
    BY <1>1, <2>1
  <2> HIDE DEF v
  <2>3. QED  BY <2>2 DEF SameReading, v
<1>8. QED  BY <1>5, <1>6, <1>7

\* LEMMA.  What is read after a command is what is read behind it.
LEMMA ReadByteSteps ==
  ASSUME NEW bytes \in Seq(Bytes), NEW p \in Positions(bytes),
         NEW byte, byte = readByte(bytes, p), NEW e, e = readEscaped(bytes, p),
         NEW t, t = ThroughCommand(bytes, e.value, e.next)
  PROVE  /\ e.next \in Positions(bytes) /\ (e.tag = "eof" => e.value = Eof)
         /\ e.tag = "command" => e.next > p
         /\ t.next \in Positions(bytes) /\ t.next >= e.next
         /\ e.tag # "command" => byte.value = e.value /\ byte.next = e.next
         /\ e.tag = "command" /\ t.value = Eof => byte.value = Eof /\ byte.next = t.next
         /\ e.tag = "command" /\ t.value # Eof =>
              \E later \in {readByte(bytes, t.next)} :
                byte.value = later.value /\ byte.next = later.next
<1>1. e.next \in Positions(bytes) /\ (e.tag = "eof" => e.value = Eof)
      /\ (e.tag = "command" => e.next > p)
  BY EscapedFacts
<1>2. t.next \in Positions(bytes) /\ t.next >= e.next
  BY <1>1, ThroughFacts
<1>3. byte = IF e.tag # "command"
             THEN [value |-> e.value, next |-> e.next, commands |-> <<>>]
             ELSE IF t.value = Eof
             THEN [value |-> Eof, next |-> t.next, commands |-> <<>>]
             ELSE [readByte(bytes, t.next)
                     EXCEPT !.commands = <<Command(e.value, t.value)>> \o @]
  <2>1. ByteIs(bytes, p)
    BY ReadByteIs
  <2>2. QED  BY <2>1 DEF ByteIs
<1>4. PICK later : later = readByte(bytes, t.next)
  OBVIOUS
<1>5. later \in BytesRead(bytes)
  BY <1>2, <1>4, ReadByteFacts
<1>6. CASE e.tag = "command" /\ t.value # Eof
  <2>1. byte = [later EXCEPT !.commands = <<Command(e.value, t.value)>> \o @]
    BY <1>3, <1>4, <1>6
  <2>2. byte.value = later.value /\ byte.next = later.next
    BY <1>5, <2>1 DEF BytesRead
  <2>3. QED  BY <1>1, <1>2, <1>4, <1>6, <2>2
<1>7. CASE e.tag # "command"
  <2>1. byte.value = e.value /\ byte.next = e.next
    BY <1>3, <1>7
  <2>2. QED  BY <1>1, <1>2, <1>7, <2>1
<1>8. CASE e.tag = "command" /\ t.value = Eof
  <2>1. byte.value = Eof /\ byte.next = t.next
    BY <1>3, <1>8
  <2>2. QED  BY <1>1, <1>2, <1>8, <2>1
<1>9. QED  BY <1>6, <1>7, <1>8

\* LEMMA.  The next byte is the same in alike bytes.
LEMMA ByteAlike ==
  ASSUME NEW a, NEW b, NEW n, NEW lo, NEW hi, SameBytes(a, b, n, lo, hi), NEW p \in lo .. hi,
         NEW w, w = readByte(b, p), Within(a, b, n, hi, w.value # Eof, w.next)
  PROVE  \E v \in {readByte(a, p + n)} : SameReading(v, w, n, p, hi)
<1> DEFINE D == lo .. hi
           V(q) == readByte(a, q + n)
           W(q) == readByte(b, q)
           Good == {q \in D : Within(a, b, n, hi, W(q).value # Eof, W(q).next)
                      => SameReading(V(q), W(q), n, q, hi)}
           measure == [q \in D |-> hi - q]
<1>1. /\ a \in Seq(Bytes) /\ b \in Seq(Bytes) /\ n \in Nat /\ lo \in Nat /\ hi \in Nat
      /\ \A q \in D : q \in Positions(b) /\ q + n \in Positions(a)
  BY AlikeNumbers
<1>2. lo >= 0 /\ measure \in [D -> 0 .. hi]
  BY <1>1
<1>3. ASSUME NEW q \in D, \A r \in D : measure[r] < measure[q] => r \in Good,
             Within(a, b, n, hi, W(q).value # Eof, W(q).next)
      PROVE  SameReading(V(q), W(q), n, q, hi)
  <2> DEFINE e == readEscaped(b, q)
             d == readEscaped(a, q + n)
             t == ThroughCommand(b, e.value, e.next)
             s == ThroughCommand(a, d.value, d.next)
  <2>1. q \in Positions(b) /\ q + n \in Positions(a) /\ Positions(b) \subseteq Int
    BY <1>1 DEF Positions
  <2>2. /\ e.next \in Positions(b) /\ (e.tag = "eof" => e.value = Eof)
        /\ e.tag = "command" => e.next > q
        /\ t.next \in Positions(b) /\ t.next >= e.next
        /\ e.tag # "command" => W(q).value = e.value /\ W(q).next = e.next
        /\ e.tag = "command" /\ t.value = Eof => W(q).value = Eof /\ W(q).next = t.next
        /\ e.tag = "command" /\ t.value # Eof =>
             W(q).value = W(t.next).value /\ W(q).next = W(t.next).next
    <3>1. /\ e.next \in Positions(b) /\ (e.tag = "eof" => e.value = Eof)
          /\ e.tag = "command" => e.next > q
          /\ t.next \in Positions(b) /\ t.next >= e.next
          /\ e.tag # "command" => W(q).value = e.value /\ W(q).next = e.next
          /\ e.tag = "command" /\ t.value = Eof => W(q).value = Eof /\ W(q).next = t.next
          /\ e.tag = "command" /\ t.value # Eof =>
               \E later \in {readByte(b, t.next)} :
                 W(q).value = later.value /\ W(q).next = later.next
      BY <1>1, <2>1, ReadByteSteps
    <3>2. W(t.next) = readByte(b, t.next)
      OBVIOUS
    <3> HIDE DEF W, e, t
    <3>3. QED  BY ONLY <3>1, <3>2
  <2>3. /\ d.tag # "command" => V(q).value = d.value /\ V(q).next = d.next
        /\ d.tag = "command" /\ s.value = Eof => V(q).value = Eof /\ V(q).next = s.next
        /\ d.tag = "command" /\ s.value # Eof =>
             \E later \in {readByte(a, s.next)} :
               V(q).value = later.value /\ V(q).next = later.next
    BY <1>1, <2>1, ReadByteSteps
  <2>4. /\ W(t.next).next \in Positions(b)
        /\ W(t.next).value # Eof => W(t.next).next > t.next
    BY <1>1, <2>2, ByteGoesOn
  <2>5. ToEnd(a, b, n, hi) \/ (W(q).value # Eof /\ W(q).next <= hi)
    BY <1>3 DEF Within
  <2>6. Within(a, b, n, hi, e.tag # "eof", e.next)
          => /\ d.tag = e.tag /\ d.value = e.value /\ d.next = e.next + n
             /\ e.next \in q .. hi
    BY EscapedAlike
  <2>7. \A x \in q .. hi : \A y \in x .. hi : x \in D /\ y \in q .. hi
    BY <1>1
  <2> HIDE DEF D, V, W, e, d
  <2>8. CASE e.tag # "command"
    <3>1. Within(a, b, n, hi, e.tag # "eof", e.next)
      BY <2>2, <2>5, <2>8 DEF Within
    <3>2. QED  BY <2>2, <2>3, <2>6, <2>8, <3>1 DEF SameReading
  <2>9. CASE e.tag = "command"
    <3>1. Within(a, b, n, hi, e.tag # "eof", e.next)
          /\ Within(a, b, n, hi, t.value # Eof, t.next)
      <4> HIDE DEF t
      <4>1. CASE t.value = Eof
        BY <2>2, <2>5, <2>9, <4>1 DEF Within
      <4>2. CASE t.value # Eof
        <5>1. ToEnd(a, b, n, hi) \/ (t.next <= hi /\ e.next <= hi)
          BY <1>1, <2>1, <2>2, <2>4, <2>5, <2>9, <4>2
        <5>2. QED  BY <2>9, <4>2, <5>1 DEF Within
      <4>3. QED  BY <4>1, <4>2
    <3>2. d.tag = e.tag /\ d.value = e.value /\ d.next = e.next + n /\ e.next \in q .. hi
      BY <2>6, <3>1
    <3>3. SameReading(s, t, n, e.next, hi)
      <4>1. e.next \in lo .. hi
        BY <2>7, <3>2, <1>1 DEF D
      <4>2. \E x \in {ThroughCommand(a, e.value, e.next + n)} : SameReading(x, t, n, e.next, hi)
        BY <3>1, <4>1, ThroughAlike
      <4>3. QED  BY <3>2, <4>2
    <3> HIDE DEF s, t
    <3>4. s.value = t.value /\ s.next = t.next + n /\ t.next \in e.next .. hi
      BY <3>3 DEF SameReading
    <3>5. t.next \in q .. hi /\ t.next > q
      BY <1>1, <2>1, <2>2, <2>7, <2>9, <3>2, <3>4
    <3>6. CASE t.value = Eof
      BY <2>2, <2>3, <2>9, <3>2, <3>4, <3>5, <3>6 DEF SameReading
    <3>7. CASE t.value # Eof
      <4>1. /\ W(q).value = W(t.next).value /\ W(q).next = W(t.next).next
            /\ V(q).value = V(t.next).value /\ V(q).next = V(t.next).next
        BY <2>2, <2>3, <2>9, <3>2, <3>4, <3>7 DEF V
      <4>2. t.next \in D /\ measure[t.next] < measure[q]
        <5>1. t.next \in D /\ q \in D
          <6>1. t.next \in t.next .. hi
            BY <1>1, <3>5
          <6>2. QED  BY <2>7, <3>5, <6>1
        <5>2. hi - t.next < hi - q
          <6>1. q \in Int /\ t.next \in Int /\ hi \in Int
            BY <1>1, <3>5, <5>1 DEF D
          <6>2. QED  BY ONLY <3>5, <6>1
        <5>3. QED  BY <5>1, <5>2
      <4>3. t.next \in Good
        BY <1>3, <4>2
      <4>4. SameReading(V(t.next), W(t.next), n, t.next, hi)
        BY <1>3, <4>1, <4>3
      <4>5. W(t.next).next \in q .. hi
        BY <2>7, <3>5, <4>4 DEF SameReading
      <4>6. QED  BY <4>1, <4>4, <4>5 DEF SameReading
    <3>8. QED  BY <3>6, <3>7
  <2>10. QED  BY <2>8, <2>9
<1>4. D \subseteq Good
  <2>1. \A q \in D : (\A r \in D : measure[r] < measure[q] => r \in Good) => q \in Good
    <3> HIDE DEF measure, V, W
    <3>1. QED  BY <1>3
  <2> HIDE DEF measure, Good, D
  <2>2. GoodFromNearer(D, hi, measure, Good)
    BY ONLY <1>1, <1>2, <2>1 DEF GoodFromNearer
  <2>3. QED  BY ONLY <2>2, MeasureInduction
<1>5. QED  BY <1>4

\* From p on there are the bytes of s in a.
HoldsAt(a, p, s) ==
  /\ a \in Seq(Bytes) /\ s \in Seq(Bytes)
  /\ p \in Positions(a) /\ p + Len(s) \in Positions(a)
  /\ \A i \in 1 .. Len(s) : a[p - 1 + i] = s[i]

\* LEMMA.  One list of bytes is before the other.
LEMMA CarriesParts ==
  ASSUME NEW a, NEW p, NEW s \in Seq(Bytes), NEW t \in Seq(Bytes), HoldsAt(a, p, s \o t)
  PROVE  HoldsAt(a, p, s) /\ HoldsAt(a, p + Len(s), t)
<1>1. PICK m \in Nat, n \in Nat : m = Len(s) /\ n = Len(t)
  OBVIOUS
<1>2. /\ a \in Seq(Bytes) /\ Len(a) \in Nat /\ p \in 1 .. Len(a) + 1
      /\ p + Len(s \o t) \in 1 .. Len(a) + 1
      /\ \A i \in 1 .. Len(s \o t) : a[p - 1 + i] = (s \o t)[i]
  BY DEF HoldsAt, Positions, End
<1>3. /\ Len(s \o t) = m + n
      /\ \A i \in 1 .. m + n : (s \o t)[i] = IF i <= m THEN s[i] ELSE t[i - m]
  <2>1. /\ Len(s \o t) = Len(s) + Len(t)
        /\ \A i \in 1 .. Len(s) + Len(t) :
             (s \o t)[i] = IF i <= Len(s) THEN s[i] ELSE t[i - Len(s)]
    BY ConcatProperties
  <2>2. QED  BY ONLY <1>1, <2>1
<1>4. p + (m + n) <= Len(a) + 1 /\ p + m \in 1 .. Len(a) + 1 /\ p + m + n \in 1 .. Len(a) + 1
  BY <1>1, <1>2, <1>3
<1>5. \A i \in 1 .. m : a[p - 1 + i] = s[i]
  <2>1. \A i \in 1 .. m : i \in 1 .. m + n /\ i <= m
    OBVIOUS
  <2>2. QED  BY <1>2, <1>3, <2>1
<1>6. \A i \in 1 .. n : a[(p + m) - 1 + i] = t[i]
  <2>1. \A i \in 1 .. n : /\ m + i \in 1 .. m + n /\ ~(m + i <= m) /\ (m + i) - m = i
                          /\ p - 1 + (m + i) = (p + m) - 1 + i
    BY <1>2
  <2>2. ASSUME NEW i \in 1 .. n PROVE a[(p + m) - 1 + i] = t[i]
    <3>1. a[p - 1 + (m + i)] = (s \o t)[m + i]
      BY ONLY <1>2, <1>3, <2>1, i \in 1 .. n
    <3>2. (s \o t)[m + i] = t[i]
      BY ONLY <1>3, <2>1, i \in 1 .. n
    <3>3. QED  BY ONLY <2>1, <3>1, <3>2, i \in 1 .. n
  <2>3. QED  BY <2>2
<1>7. HoldsAt(a, p, s)
  BY <1>1, <1>2, <1>4, <1>5 DEF HoldsAt, Positions, End
<1>8. HoldsAt(a, p + m, t)
  BY <1>1, <1>2, <1>4, <1>6 DEF HoldsAt, Positions, End
<1>9. QED  BY <1>1, <1>7, <1>8

\* A byte among options as it is sent.
doubles == [x \in Bytes |-> IF x = IAC THEN <<IAC, IAC>> ELSE <<x>>]

\* LEMMA.  What doubles makes are bytes.
LEMMA DoublesType == doubles \in [Bytes -> Seq(Bytes)]
<1>1. ASSUME NEW x \in Bytes PROVE <<x, x>> \in Seq(Bytes) /\ <<x>> \in Seq(Bytes)
  OBVIOUS
<1>2. IAC \in Bytes
  BY BytesAssumption DEF IAC
<1>3. QED  BY <1>1, <1>2 DEF doubles

\* LEMMA.  Options are sent byte by byte.
LEMMA DoubledFacts ==
  /\ Doubled(<<>>) = <<>>
  /\ \A x \in Bytes : Doubled(<<x>>) = doubles[x]
  /\ \A s \in Seq(Bytes) : Doubled(s) \in Seq(Bytes)
  /\ \A x \in Bytes, s \in Seq(Bytes) : Doubled(<<x>> \o s) = doubles[x] \o Doubled(s)
<1>1. ASSUME NEW s \in Seq(Bytes) PROVE Doubled(s) = Each(s, doubles)
  <2>1. \A i \in DOMAIN s : s[i] \in Bytes
    OBVIOUS
  <2>2. QED  BY <2>1 DEF Doubled, Each, Made, doubles
<1>2. \A s \in Seq(Bytes) : Makes(Bytes, Bytes, doubles, s)
  BY DoublesType DEF Makes
<1>3. Doubled(<<>>) = <<>>
  <2>1. <<>> \in Seq(Bytes)
    OBVIOUS
  <2>2. QED  BY <1>1, <2>1, DoublesType, EachFacts
<1>4. ASSUME NEW x \in Bytes PROVE Doubled(<<x>>) = doubles[x]
  <2>1. <<x>> \in Seq(Bytes)
    OBVIOUS
  <2>2. QED  BY <1>1, <2>1, DoublesType, EachFacts
<1>5. ASSUME NEW s \in Seq(Bytes) PROVE Doubled(s) \in Seq(Bytes)
  <2>1. Each(s, doubles) \in Seq(Bytes)
    BY <1>2, EachTyped
  <2>2. QED  BY <1>1, <2>1
<1>6. ASSUME NEW x \in Bytes, NEW s \in Seq(Bytes)
      PROVE  Doubled(<<x>> \o s) = doubles[x] \o Doubled(s)
  <2>1. PICK one \in Seq(Bytes) : one = <<x>>
    <3>1. <<x>> \in Seq(Bytes)
      OBVIOUS
    <3>2. QED  BY ONLY <3>1
  <2>2. one \o s \in Seq(Bytes)
    OBVIOUS
  <2>3. Each(one \o s, doubles) = Each(one, doubles) \o Each(s, doubles)
    BY <1>2, EachConcat
  <2>4. QED  BY <1>1, <1>4, <2>1, <2>2, <2>3
<1>7. QED  BY <1>3, <1>4, <1>5, <1>6

\* LEMMA.  A byte of options is read as it was before it was sent.
LEMMA DoubledRead ==
  ASSUME NEW a, NEW p, NEW x \in Bytes, HoldsAt(a, p, doubles[x])
  PROVE  readEscaped(a, p) = [tag |-> "data", value |-> x, next |-> p + Len(doubles[x])]
<1>1. /\ a \in Seq(Bytes) /\ Len(a) \in Nat /\ p \in 1 .. Len(a) + 1
      /\ p + Len(doubles[x]) \in 1 .. Len(a) + 1 /\ End(a) = Len(a) + 1
      /\ \A i \in 1 .. Len(doubles[x]) : a[p - 1 + i] = doubles[x][i]
  BY DEF HoldsAt, Positions, End
<1>2. CASE x = IAC
  <2>1. doubles[x] = <<IAC, IAC>>
    BY <1>2 DEF doubles
  <2>2. PICK d : d = doubles[x]
    OBVIOUS
  <2>3. Len(d) = 2 /\ d[1] = IAC /\ d[2] = IAC
    BY <2>1, <2>2
  <2>4. a[p - 1 + 1] = IAC /\ a[p - 1 + 2] = IAC /\ p + 2 <= Len(a) + 1
    BY <1>1, <2>2, <2>3
  <2>5. p - 1 + 1 = p /\ p - 1 + 2 = p + 1 /\ p < End(a) - 1 /\ p # End(a)
    BY <1>1, <2>4
  <2>6. readEscaped(a, p) = [tag |-> IF a[p + 1] = IAC THEN "data" ELSE "command",
                             value |-> a[p + 1], next |-> p + 2]
    BY <2>4, <2>5 DEF readEscaped
  <2>7. QED  BY <1>2, <2>2, <2>3, <2>4, <2>5, <2>6
<1>3. CASE x # IAC
  <2>1. doubles[x] = <<x>>
    BY <1>3 DEF doubles
  <2>2. PICK d : d = doubles[x]
    OBVIOUS
  <2>3. Len(d) = 1 /\ d[1] = x
    BY <2>1, <2>2
  <2>4. a[p - 1 + 1] = x /\ p + 1 <= Len(a) + 1
    BY <1>1, <2>2, <2>3
  <2>5. p - 1 + 1 = p /\ p < End(a) /\ p # End(a)
    BY <1>1, <2>4
  <2>6. readEscaped(a, p) = [tag |-> "data", value |-> a[p], next |-> p + 1]
    BY <1>3, <2>4, <2>5 DEF readEscaped
  <2>7. QED  BY <2>2, <2>3, <2>4, <2>5, <2>6
<1>4. QED  BY <1>2, <1>3

\* LEMMA.  An IAC and another byte are a command.
LEMMA CommandRead ==
  ASSUME NEW a, NEW p, NEW type \in Bytes, type # IAC, HoldsAt(a, p, <<IAC, type>>)
  PROVE  readEscaped(a, p) = [tag |-> "command", value |-> type, next |-> p + 2]
<1>1. PICK d : d = <<IAC, type>>
  OBVIOUS
<1>2. Len(d) = 2 /\ d[1] = IAC /\ d[2] = type
  BY <1>1
<1>3. /\ a \in Seq(Bytes) /\ Len(a) \in Nat /\ p \in 1 .. Len(a) + 1
      /\ p + Len(d) \in 1 .. Len(a) + 1 /\ End(a) = Len(a) + 1
      /\ \A i \in 1 .. Len(d) : a[p - 1 + i] = d[i]
  BY <1>1 DEF HoldsAt, Positions, End
<1>4. a[p - 1 + 1] = IAC /\ a[p - 1 + 2] = type /\ p + 2 <= Len(a) + 1
  BY <1>2, <1>3
<1>5. p - 1 + 1 = p /\ p - 1 + 2 = p + 1 /\ p < End(a) - 1 /\ p # End(a)
  BY <1>3, <1>4
<1>6. readEscaped(a, p) = [tag |-> IF a[p + 1] = IAC THEN "data" ELSE "command",
                           value |-> a[p + 1], next |-> p + 2]
  BY <1>4, <1>5 DEF readEscaped
<1>7. QED  BY <1>4, <1>5, <1>6

\* The end of sub-options, and sub-options up to it.
Closing == <<IAC, "SE">>

ToTheEnd(options) == Doubled(options) \o Closing

\* LEMMA.  Sub-options begin with their first byte.
LEMMA ToTheEndFacts ==
  /\ Closing \in Seq(Bytes) /\ Len(Closing) = 2
  /\ ToTheEnd(<<>>) = Closing
  /\ \A s \in Seq(Bytes) : ToTheEnd(s) \in Seq(Bytes)
  /\ \A x \in Bytes, s \in Seq(Bytes) : ToTheEnd(<<x>> \o s) = doubles[x] \o ToTheEnd(s)
<1>1. Closing \in Seq(Bytes) /\ Len(Closing) = 2
  <2>1. PICK x \in Bytes, y \in Bytes : x = IAC /\ y = "SE"
    BY BytesAssumption DEF IAC
  <2>2. <<x, y>> \in Seq(Bytes) /\ Len(<<x, y>>) = 2
    OBVIOUS
  <2>3. QED  BY <2>1, <2>2 DEF Closing
<1>2. ToTheEnd(<<>>) = Closing
  <2>1. <<>> \o Closing = Closing
    BY <1>1, ConcatEmptySeq
  <2>2. QED  BY <2>1, DoubledFacts DEF ToTheEnd
<1>3. ASSUME NEW s \in Seq(Bytes) PROVE ToTheEnd(s) \in Seq(Bytes)
  <2>1. Doubled(s) \in Seq(Bytes)
    BY DoubledFacts
  <2>2. QED  BY <1>1, <2>1 DEF ToTheEnd
<1>4. ASSUME NEW x \in Bytes, NEW s \in Seq(Bytes)
      PROVE  ToTheEnd(<<x>> \o s) = doubles[x] \o ToTheEnd(s)
  <2>1. PICK d \in Seq(Bytes), e \in Seq(Bytes) : d = doubles[x] /\ e = Doubled(s)
    BY DoubledFacts, DoublesType
  <2>2. (d \o e) \o Closing = d \o (e \o Closing)
    <3>1. ListsOf(Bytes, d, e, Closing)
      BY <1>1 DEF ListsOf
    <3>2. QED  BY ONLY <3>1, Regroup
  <2>3. Doubled(<<x>> \o s) = doubles[x] \o Doubled(s)
    BY DoubledFacts
  <2>4. QED  BY <2>1, <2>2, <2>3 DEF ToTheEnd
<1>5. QED  BY <1>1, <1>2, <1>3, <1>4

\* The end of sub-options is found where they end.
Passes(a, p, options) ==
  LET last == SubOptionsEnd(a, p)
  IN  last.tag = "command" /\ last.next = p + Len(ToTheEnd(options))

\* LEMMA.  Nothing in sub-options ends them.
LEMMA SubOptionsPass ==
  ASSUME NEW a, NEW p, NEW options \in Seq(Bytes), HoldsAt(a, p, ToTheEnd(options))
  PROVE  Passes(a, p, options)
<1> DEFINE All(k) == \A q \in Positions(a), s \in Seq(Bytes) :
                       Len(s) = k /\ HoldsAt(a, q, ToTheEnd(s)) => Passes(a, q, s)
           Good == {k \in Nat : All(k)}
<1>1. a \in Seq(Bytes) /\ p \in Positions(a)
  BY DEF HoldsAt
<1>2. 0 \in Good
  <2>1. SUFFICES ASSUME NEW q \in Positions(a), NEW s \in Seq(Bytes),
                        Len(s) = 0, HoldsAt(a, q, ToTheEnd(s))
                 PROVE  Passes(a, q, s)
    OBVIOUS
  <2>2. s = <<>> /\ HoldsAt(a, q, <<IAC, "SE">>)
    BY <2>1, ToTheEndFacts DEF Closing
  <2>3. readEscaped(a, q) = [tag |-> "command", value |-> "SE", next |-> q + 2]
    BY <2>2, CommandRead, BytesAssumption DEF IAC
  <2>4. PICK byte : byte = readEscaped(a, q)
    OBVIOUS
  <2>5. byte.tag = "command" /\ byte.next = q + 2 /\ EndsSubOptions(byte)
    BY <2>3, <2>4 DEF EndsSubOptions
  <2>6. SubOptionsEnd(a, q) = byte
    BY <1>1, <2>4, <2>5, SubOptionsEndIs DEF EndIs
  <2>7. Len(ToTheEnd(s)) = 2
    BY <2>2, ToTheEndFacts
  <2>8. QED  BY <2>5, <2>6, <2>7 DEF Passes
<1>3. ASSUME NEW k \in 1 .. Len(options), k - 1 \in Good
      PROVE  k \in Good
  <2>1. SUFFICES ASSUME NEW q \in Positions(a), NEW s \in Seq(Bytes),
                        Len(s) = k, HoldsAt(a, q, ToTheEnd(s))
                 PROVE  Passes(a, q, s)
    OBVIOUS
  <2>2. PICK x \in Bytes, t \in Seq(Bytes) : s = <<x>> \o t /\ Len(t) = k - 1
    <3>1. Head(s) \in Bytes /\ Tail(s) \in Seq(Bytes) /\ Len(Tail(s)) = k - 1
      BY <2>1
    <3>2. s = <<Head(s)>> \o Tail(s)
      BY <2>1, HeadTailProperties
    <3>3. QED  BY <3>1, <3>2
  <2>3. PICK d \in Seq(Bytes), rest \in Seq(Bytes) : d = doubles[x] /\ rest = ToTheEnd(t)
    BY DoublesType, ToTheEndFacts
  <2>4. ToTheEnd(s) = d \o rest
    BY <2>2, <2>3, ToTheEndFacts
  <2>5. HoldsAt(a, q, d) /\ HoldsAt(a, q + Len(d), rest)
    BY <2>1, <2>4, CarriesParts
  <2>6. readEscaped(a, q) = [tag |-> "data", value |-> x, next |-> q + Len(d)]
    BY <2>3, <2>5, DoubledRead
  <2>7. PICK byte : byte = readEscaped(a, q)
    OBVIOUS
  <2>8. byte.tag = "data" /\ byte.next = q + Len(d)
    BY <2>6, <2>7
  <2>9. SubOptionsEnd(a, q) = SubOptionsEnd(a, q + Len(d))
    BY <1>1, <2>7, <2>8, SubOptionsEndIs DEF EndIs, EndsSubOptions
  <2>10. Passes(a, q + Len(d), t)
    <3>1. q + Len(d) \in Positions(a) /\ k - 1 \in Nat
      BY <2>5 DEF HoldsAt
    <3>2. QED  BY <1>3, <2>2, <2>3, <2>5, <3>1
  <2>11. q + Len(d) + Len(rest) = q + Len(ToTheEnd(s))
    <3>1. Len(d \o rest) = Len(d) + Len(rest)
      BY ConcatProperties
    <3>2. q \in Nat /\ Len(d) \in Nat /\ Len(rest) \in Nat
      BY DEF Positions
    <3>3. QED  BY ONLY <2>4, <3>1, <3>2
  <2>12. QED  BY <2>3, <2>9, <2>10, <2>11 DEF Passes
<1>4. Len(options) \in Good
  <2> HIDE DEF Good
  <2>1. Len(options) \in Nat
    OBVIOUS
  <2>2. QED  BY <1>2, <1>3, <2>1, UpToInduction
<1>5. QED  BY <1>1, <1>4

\* What comes behind the type of a command.
Behind(c) == IF c.type = "SB" THEN ToTheEnd(c.options) ELSE Doubled(c.options)

\* LEMMA.  A command is sent as its type and what comes behind.
LEMMA AsSentFacts ==
  ASSUME NEW c \in Commands
  PROVE  /\ <<IAC, c.type>> \in Seq(Bytes) /\ Len(<<IAC, c.type>>) = 2
         /\ Behind(c) \in Seq(Bytes)
         /\ AsSent(c) = <<IAC, c.type>> \o Behind(c)
<1>1. c.type \in Bytes /\ c.options \in Seq(Bytes)
  BY CommandsAssumption
<1>2. PICK begin \in Seq(Bytes) : begin = <<IAC, c.type>> /\ Len(begin) = 2
  <2>1. PICK x \in Bytes, y \in Bytes : x = IAC /\ y = c.type
    BY <1>1, BytesAssumption DEF IAC
  <2>2. <<x, y>> \in Seq(Bytes) /\ Len(<<x, y>>) = 2
    OBVIOUS
  <2>3. QED  BY <2>1, <2>2
<1>3. PICK middle \in Seq(Bytes) : middle = Doubled(c.options)
  BY <1>1, DoubledFacts
<1>4. CASE c.type = "SB"
  <2>1. AsSent(c) = (begin \o middle) \o Closing
    BY <1>2, <1>3, <1>4 DEF AsSent, Closing
  <2>2. (begin \o middle) \o Closing = begin \o (middle \o Closing)
    <3>1. ListsOf(Bytes, begin, middle, Closing)
      BY ToTheEndFacts DEF ListsOf
    <3>2. QED  BY ONLY <3>1, Regroup
  <2>3. Behind(c) = middle \o Closing
    BY <1>3, <1>4 DEF Behind, ToTheEnd
  <2>4. Behind(c) \in Seq(Bytes)
    BY <1>1, <1>4, ToTheEndFacts DEF Behind
  <2>5. QED  BY <1>2, <2>1, <2>2, <2>3, <2>4
<1>5. CASE c.type # "SB"
  <2>1. AsSent(c) = (begin \o middle) \o <<>>
    BY <1>2, <1>3, <1>5 DEF AsSent
  <2>2. begin \o middle \in Seq(Bytes)
    OBVIOUS
  <2>3. (begin \o middle) \o <<>> = begin \o middle
    BY <2>2, ConcatEmptySeq
  <2>4. Behind(c) = middle
    BY <1>3, <1>5 DEF Behind
  <2>5. QED  BY <1>2, <2>1, <2>3, <2>4
<1>6. QED  BY <1>4, <1>5

\* LEMMA.  A command is gone through as it was sent.
LEMMA ThroughSent ==
  ASSUME NEW c \in Commands, NEW a, NEW p, HoldsAt(a, p, Behind(c))
  PROVE  \E t \in {ThroughCommand(a, c.type, p)} :
           t.value # Eof /\ t.next = p + Len(Behind(c))
<1> DEFINE option == readEscaped(a, p)
           t == ThroughCommand(a, c.type, p)
<1>1. c.type \in Bytes /\ c.options \in Seq(Bytes)
  BY CommandsAssumption
<1>2. CASE c.type \in {"WILL", "WONT", "DO", "DONT"}
  <2>1. PICK o \in Bytes : c.options = <<o>>
    <3>1. Len(c.options) = 1
      BY <1>2, CommandsAssumption
    <3>2. QED  BY <1>1, <3>1
  <2>2. Behind(c) = doubles[o]
    BY <1>2, <2>1, DoubledFacts DEF Behind
  <2>3. option = [tag |-> "data", value |-> o, next |-> p + Len(Behind(c))]
    BY <2>2, DoubledRead
  <2>4. option.value = o /\ option.next = p + Len(Behind(c))
    BY <2>3
  <2>5. t = [value |-> option.value, next |-> option.next]
    BY <1>2 DEF ThroughCommand
  <2> HIDE DEF option, t
  <2>6. t.value # Eof /\ t.next = p + Len(Behind(c))
    BY <2>4, <2>5, BytesAssumption
  <2>7. QED  BY <2>6 DEF t
<1>3. CASE c.type = "SB"
  <2>1. PICK o \in Bytes, s \in Seq(Bytes) : c.options = <<o>> \o s
    <3>1. c.options # <<>>
      BY <1>3, CommandsAssumption
    <3>2. PICK os \in Seq(Bytes) : os = c.options /\ os # <<>>
      BY <1>1, <3>1
    <3>3. Head(os) \in Bytes /\ Tail(os) \in Seq(Bytes)
      BY <3>2
    <3>4. os = <<Head(os)>> \o Tail(os)
      BY <3>2, HeadTailProperties
    <3>5. QED  BY <3>2, <3>3, <3>4
  <2>2. PICK d \in Seq(Bytes), rest \in Seq(Bytes) : d = doubles[o] /\ rest = ToTheEnd(s)
    BY DoublesType, ToTheEndFacts
  <2>3. Behind(c) = d \o rest
    BY <1>3, <2>1, <2>2, ToTheEndFacts DEF Behind
  <2>4. HoldsAt(a, p, d) /\ HoldsAt(a, p + Len(d), rest)
    BY <2>3, CarriesParts
  <2>5. option = [tag |-> "data", value |-> o, next |-> p + Len(d)]
    BY <2>2, <2>4, DoubledRead
  <2>6. option.tag = "data" /\ option.value = o /\ option.next = p + Len(d)
    BY <2>5
  <2>7. PICK last : last = SubOptionsEnd(a, p + Len(d))
    OBVIOUS
  <2>8. last.tag = "command" /\ last.next = p + Len(d) + Len(rest)
    BY <2>2, <2>4, <2>7, SubOptionsPass DEF Passes
  <2>9. t = [value |-> o, next |-> last.next]
    BY <1>3, <2>6, <2>7, <2>8 DEF ThroughCommand
  <2>10. p + Len(d) + Len(rest) = p + Len(Behind(c))
    <3>1. Len(d \o rest) = Len(d) + Len(rest)
      BY ConcatProperties
    <3>2. p \in Nat /\ Len(d) \in Nat /\ Len(rest) \in Nat
      BY <2>4 DEF HoldsAt, Positions
    <3>3. QED  BY ONLY <2>3, <3>1, <3>2
  <2>11. t.value = o /\ t.next = last.next
    BY <2>9
  <2> HIDE DEF t
  <2>12. t.value # Eof /\ t.next = p + Len(Behind(c))
    BY <2>8, <2>10, <2>11, BytesAssumption
  <2>13. QED  BY <2>12 DEF t
<1>4. CASE c.type \notin {"WILL", "WONT", "DO", "DONT", "SB"}
  <2>1. c.options = <<>>
    BY <1>4, CommandsAssumption
  <2>2. Behind(c) = <<>>
    BY <1>4, <2>1, DoubledFacts DEF Behind
  <2>3. Len(Behind(c)) = 0 /\ p + 0 = p
    BY <2>2 DEF HoldsAt, Positions
  <2>4. t = [value |-> "none", next |-> p]
    BY <1>4 DEF ThroughCommand
  <2>5. t.value # Eof /\ t.next = p + Len(Behind(c))
    BY <2>3, <2>4, BytesAssumption
  <2>6. QED  BY <2>5
<1>5. QED  BY <1>2, <1>3, <1>4

\* LEMMA.  The next byte is the one behind a command.
LEMMA WholeCommand ==
  ASSUME NEW c \in Commands, NEW a, NEW p, HoldsAt(a, p, AsSent(c))
  PROVE  \E v \in {readByte(a, p)} : \E w \in {readByte(a, p + Len(AsSent(c)))} :
           v.value = w.value /\ v.next = w.next
<1> DEFINE e == readEscaped(a, p)
           t == ThroughCommand(a, e.value, e.next)
<1>1. a \in Seq(Bytes) /\ p \in Positions(a) /\ p \in Nat
  BY DEF HoldsAt, Positions
<1>2. PICK begin \in Seq(Bytes), behind \in Seq(Bytes) :
        /\ begin = <<IAC, c.type>> /\ behind = Behind(c)
        /\ Len(begin) = 2 /\ AsSent(c) = begin \o behind
  BY AsSentFacts
<1>3. HoldsAt(a, p, begin) /\ HoldsAt(a, p + 2, behind)
  BY <1>2, CarriesParts
<1>4. e = [tag |-> "command", value |-> c.type, next |-> p + 2]
  <2>1. c.type \in Bytes /\ c.type # IAC
    BY CommandsAssumption DEF IAC
  <2>2. QED  BY <1>2, <1>3, <2>1, CommandRead
<1>5. e.tag = "command" /\ e.value = c.type /\ e.next = p + 2
  BY <1>4
<1>6. \E s \in {ThroughCommand(a, c.type, p + 2)} :
        s.value # Eof /\ s.next = p + 2 + Len(behind)
  BY <1>2, <1>3, ThroughSent
<1>7. t.value # Eof /\ t.next = p + 2 + Len(behind)
  BY <1>5, <1>6
<1>8. p + 2 + Len(behind) = p + Len(AsSent(c))
  <2>1. Len(begin \o behind) = Len(begin) + Len(behind)
    BY ConcatProperties
  <2>2. Len(behind) \in Nat
    OBVIOUS
  <2>3. QED  BY ONLY <1>1, <1>2, <2>1, <2>2
<1>9. \E later \in {readByte(a, t.next)} :
        readByte(a, p).value = later.value /\ readByte(a, p).next = later.next
  BY <1>1, <1>5, <1>7, ReadByteSteps
<1>10. QED  BY <1>7, <1>8, <1>9

\* The bytes with others put in between.
Between(bytes, p, s) == SubSeq(bytes, 1, p - 1) \o s \o SubSeq(bytes, p, Len(bytes))

\* LEMMA.  The bytes before and behind are where they were, or as many places on as were put
\* in between.
LEMMA BetweenFacts ==
  ASSUME NEW b \in Seq(Bytes), NEW p \in Positions(b), NEW s \in Seq(Bytes),
         NEW a, a = Between(b, p, s)
  PROVE  /\ SameBytes(a, b, 0, 1, p)
         /\ SameBytes(a, b, Len(s), p, End(b)) /\ ToEnd(a, b, Len(s), End(b))
         /\ HoldsAt(a, p, s)
<1>1. PICK m \in Nat, n \in Nat : m = Len(b) /\ n = Len(s)
  OBVIOUS
<1>2. p \in 1 .. m + 1
  BY <1>1 DEF Positions, End
<1>3. PICK x \in Seq(Bytes) : /\ x = SubSeq(b, 1, p - 1) /\ Len(x) = p - 1
                              /\ \A i \in 1 .. p - 1 : x[i] = b[i]
  <2>1. SubSeq(b, 1, p - 1) \in Seq(Bytes) /\ Len(SubSeq(b, 1, p - 1)) = p - 1
        /\ \A i \in 1 .. p - 1 : SubSeq(b, 1, p - 1)[i] = b[i]
    BY <1>1, <1>2
  <2>2. QED  BY ONLY <2>1
<1>4. PICK y \in Seq(Bytes) : /\ y = SubSeq(b, p, m) /\ Len(y) = m - p + 1
                              /\ \A i \in 1 .. m - p + 1 : y[i] = b[p + i - 1]
  <2>1. SubSeq(b, p, m) \in Seq(Bytes) /\ Len(SubSeq(b, p, m)) = m - p + 1
        /\ \A i \in 1 .. m - p + 1 : SubSeq(b, p, m)[i] = b[p + i - 1]
    BY <1>1, <1>2
  <2>2. QED  BY ONLY <2>1
<1>5. PICK z \in Seq(Bytes) : z = x \o s
  <2>1. x \o s \in Seq(Bytes)
    OBVIOUS
  <2>2. QED  BY ONLY <2>1
<1>6. /\ Len(z) = p - 1 + n
      /\ \A i \in 1 .. p - 1 + n : z[i] = IF i <= p - 1 THEN x[i] ELSE s[i - (p - 1)]
  <2>1. /\ Len(x \o s) = Len(x) + Len(s)
        /\ \A i \in 1 .. Len(x) + Len(s) :
             (x \o s)[i] = IF i <= Len(x) THEN x[i] ELSE s[i - Len(x)]
    BY ConcatProperties
  <2>2. QED  BY ONLY <1>1, <1>3, <1>5, <2>1
<1>7. /\ a \in Seq(Bytes) /\ Len(a) = m + n
      /\ \A i \in 1 .. m + n : a[i] = IF i <= p - 1 + n THEN z[i] ELSE y[i - (p - 1 + n)]
  <2>1. a = z \o y
    BY <1>1, <1>3, <1>4, <1>5 DEF Between
  <2>2. /\ z \o y \in Seq(Bytes) /\ Len(z \o y) = Len(z) + Len(y)
        /\ \A i \in 1 .. Len(z) + Len(y) :
             (z \o y)[i] = IF i <= Len(z) THEN z[i] ELSE y[i - Len(z)]
    BY ConcatProperties
  <2>3. Len(z) + Len(y) = m + n
    BY <1>2, <1>4, <1>6
  <2>4. QED  BY ONLY <1>6, <2>1, <2>2, <2>3
<1>8. ASSUME NEW i \in 1 .. p - 1 PROVE a[i] = b[i]
  <2>1. i \in 1 .. m + n /\ i \in 1 .. p - 1 + n /\ i <= p - 1 + n /\ i <= p - 1
    BY <1>2
  <2>2. QED  BY ONLY <1>3, <1>6, <1>7, <2>1, i \in 1 .. p - 1
<1>9. ASSUME NEW i \in 1 .. n PROVE a[p - 1 + i] = s[i]
  <2>1. /\ p - 1 + i \in 1 .. m + n /\ p - 1 + i \in 1 .. p - 1 + n /\ p - 1 + i <= p - 1 + n
        /\ ~(p - 1 + i <= p - 1) /\ (p - 1 + i) - (p - 1) = i
    BY <1>2
  <2>2. a[p - 1 + i] = z[p - 1 + i]
    BY ONLY <1>7, <2>1
  <2>3. QED  BY ONLY <1>6, <2>1, <2>2
<1>10. ASSUME NEW i \in p .. m PROVE a[i + n] = b[i]
  <2>1. /\ i + n \in 1 .. m + n /\ ~(i + n <= p - 1 + n)
        /\ (i + n) - (p - 1 + n) = i - p + 1
        /\ i - p + 1 \in 1 .. m - p + 1 /\ p + (i - p + 1) - 1 = i
    BY <1>2
  <2>2. a[i + n] = y[i - p + 1]
    BY ONLY <1>7, <2>1
  <2>3. QED  BY ONLY <1>4, <2>1, <2>2
<1>11. End(a) = m + n + 1 /\ End(b) = m + 1
  BY <1>1, <1>7 DEF End
<1>12. /\ p + 0 = p /\ p + n \in 1 .. m + n + 1 /\ p \in 1 .. m + n + 1
       /\ m + 1 + n \in 1 .. m + n + 1 /\ m + 1 + n = m + n + 1 /\ m + 1 \in 1 .. m + 1
       /\ 1 \in 1 .. m + 1 /\ m + 1 - 1 = m /\ 0 \in Nat
  BY <1>2
<1>13. SameBytes(a, b, 0, 1, p)
  <2>1. \A i \in 1 .. p - 1 : i + 0 = i
    OBVIOUS
  <2>2. QED  BY <1>2, <1>7, <1>8, <1>11, <1>12, <2>1 DEF SameBytes, Positions
<1>14. SameBytes(a, b, n, p, End(b)) /\ ToEnd(a, b, n, End(b))
  BY <1>2, <1>7, <1>10, <1>11, <1>12 DEF SameBytes, ToEnd, Positions
<1>15. HoldsAt(a, p, s)
  BY <1>1, <1>7, <1>9, <1>11, <1>12 DEF HoldsAt, Positions
<1>16. QED  BY <1>1, <1>13, <1>14, <1>15

\* LEMMA.  A command between two bytes that belong to none leaves the keys as they are.
LEMMA CommandBetween ==
  ASSUME NEW b \in Seq(Bytes), NEW p \in BoundariesFrom(b, 1), NEW c \in Commands
  PROVE  KeysFrom(Between(b, p, AsSent(c)), 1) = KeysFrom(b, 1)
<1>1. 1 \in Positions(b)
  BY LeftFacts DEF Positions, End
<1>2. p \in Positions(b) /\ p >= 1
  BY <1>1, BoundariesFacts
<1>3. PICK s \in Seq(Bytes) : s = AsSent(c)
  <2>1. PICK begin \in Seq(Bytes), behind \in Seq(Bytes) : AsSent(c) = begin \o behind
    BY AsSentFacts
  <2>2. begin \o behind \in Seq(Bytes)
    OBVIOUS
  <2>3. QED  BY <2>1, <2>2
<1>4. PICK a : a = Between(b, p, s)
  OBVIOUS
<1>5. PICK n \in Nat : n = Len(s)
  OBVIOUS
<1>6. /\ SameBytes(a, b, 0, 1, p) /\ HoldsAt(a, p, s)
      /\ SameBytes(a, b, n, p, End(b)) /\ ToEnd(a, b, n, End(b))
  BY <1>2, <1>4, <1>5, BetweenFacts
<1>7. a \in Seq(Bytes) /\ End(b) \in Nat /\ p \in 1 .. End(b)
  BY <1>2, <1>6, LeftFacts DEF HoldsAt, Positions
<1> DEFINE Before == {q \in 1 .. p : p \in BoundariesFrom(b, q)}
           R == {<<q, q>> : q \in Before} \cup {<<q + n, q>> : q \in p .. End(b)}
           V(q) == readByte(a, q)
           W(q) == readByte(b, q)
<1>8. ASSUME NEW q \in p .. End(b)
      PROVE  /\ V(q + n).value = W(q).value /\ V(q + n).next = W(q).next + n
             /\ W(q).next \in p .. End(b)
  <2>1. Within(a, b, n, End(b), W(q).value # Eof, W(q).next)
    BY <1>6 DEF Within
  <2>2. SameReading(V(q + n), W(q), n, q, End(b))
    BY <1>6, <2>1, ByteAlike
  <2>3. \A x \in q .. End(b) : x \in p .. End(b)
    BY <1>7
  <2> HIDE DEF V, W
  <2>4. QED  BY <2>2, <2>3 DEF SameReading
<1>9. ASSUME NEW q \in Before, q # p
      PROVE  /\ V(q).value = W(q).value /\ V(q).next = W(q).next
             /\ W(q).next \in Before
  <2>1. q \in 1 .. p /\ q \in Positions(b) /\ p \in BoundariesFrom(b, q)
    BY <1>7 DEF Positions
  <2>2. BoundariesFrom(b, q) =
          {q} \cup IF W(q).value = Eof THEN {} ELSE BoundariesFrom(b, W(q).next)
    BY <2>1, BoundariesFacts
  <2>3. W(q).value # Eof /\ p \in BoundariesFrom(b, W(q).next)
    BY <1>9, <2>1, <2>2
  <2>4. W(q).next \in Positions(b)
    BY <2>1, ByteGoesOn
  <2>5. p >= W(q).next
    BY <2>3, <2>4, BoundariesFacts
  <2>6. W(q).next <= p
    <3> HIDE DEF W
    <3>1. QED  BY <1>7, <2>4, <2>5 DEF Positions
  <2>7. Within(a, b, 0, p, W(q).value # Eof, W(q).next)
    BY <2>3, <2>6 DEF Within
  <2>8. SameReading(V(q + 0), W(q), 0, q, p)
    BY <1>6, <2>1, <2>7, ByteAlike
  <2>9. q + 0 = q /\ W(q).next + 0 = W(q).next /\ W(q).next \in 1 .. p
    <3> HIDE DEF W
    <3>1. QED  BY <1>7, <2>1, <2>4, <2>6 DEF Positions
  <2> HIDE DEF V, W
  <2>10. QED  BY <2>3, <2>8, <2>9 DEF SameReading
<1>10. V(p).value = W(p).value /\ V(p).next = W(p).next + n /\ W(p).next \in p .. End(b)
  <2>1. V(p).value = V(p + n).value /\ V(p).next = V(p + n).next
    BY <1>3, <1>5, <1>6, WholeCommand
  <2>2. p \in p .. End(b)
    BY <1>7
  <2> HIDE DEF V, W
  <2>3. QED  BY <1>8, <2>1, <2>2
<1>11. ReadAlike(a, b, R)
  <2>1. R \subseteq Positions(a) \X Positions(b)
    <3>1. \A q \in Before : q \in Positions(a) /\ q \in Positions(b)
      <4>1. ASSUME NEW q \in 1 .. p PROVE q \in Positions(a) /\ q \in Positions(b)
        <5>1. q \in Positions(b) /\ q + 0 \in Positions(a)
          BY <1>6, AlikeNumbers
        <5>2. q + 0 = q
          BY <1>7
        <5>3. QED  BY <5>1, <5>2
      <4>2. QED  BY <4>1
    <3>2. \A q \in p .. End(b) : q + n \in Positions(a) /\ q \in Positions(b)
      BY <1>6, AlikeNumbers
    <3> HIDE DEF Before
    <3>3. QED  BY <3>1, <3>2
  <2>2. ASSUME NEW r \in R
        PROVE  V(r[1]).value = W(r[2]).value
               /\ (W(r[2]).value # Eof => <<V(r[1]).next, W(r[2]).next>> \in R)
    <3> HIDE DEF V, W
    <3>1. CASE \E q \in p .. End(b) : r = <<q + n, q>>
      <4>1. PICK q \in p .. End(b) : r = <<q + n, q>>
        BY <3>1
      <4>2. r[1] = q + n /\ r[2] = q
        BY <4>1
      <4>3. <<V(q + n).next, W(q).next>> \in R
        BY <1>8
      <4> HIDE DEF R
      <4>4. QED  BY <1>8, <4>2, <4>3
    <3>2. CASE \E q \in Before : r = <<q, q>>
      <4>1. PICK q \in Before : r = <<q, q>>
        BY <3>2
      <4>2. r[1] = q /\ r[2] = q
        BY <4>1
      <4>3. CASE q # p
        <5>1. <<V(q).next, W(q).next>> \in R
          BY <1>9, <4>3
        <5> HIDE DEF R, Before
        <5>2. QED  BY <1>9, <4>2, <4>3, <5>1
      <4>4. CASE q = p
        <5>1. <<V(q).next, W(q).next>> \in R
          BY <1>10, <4>4
        <5> HIDE DEF R, Before
        <5>2. QED  BY <1>10, <4>2, <4>4, <5>1
      <4>5. QED  BY <4>3, <4>4
    <3>3. QED  BY <3>1, <3>2
  <2> HIDE DEF R
  <2>3. QED  BY <1>7, <2>1, <2>2 DEF ReadAlike
<1>12. <<1, 1>> \in R
  <2>1. 1 \in Before
    BY <1>7
  <2>2. QED  BY <2>1
<1>13. PICK r \in R : r[1] = 1 /\ r[2] = 1
  <2>1. PICK r \in R : r = <<1, 1>>
    BY <1>12
  <2>2. QED  BY <2>1
<1> HIDE DEF R
<1>14. KeysFrom(a, r[1]) = KeysFrom(b, r[2])
  BY <1>11, SameKeys
<1>15. QED  BY <1>3, <1>4, <1>13, <1>14

-------------------------------------------------------------------------------
(* The calls of the threads that use a connection                          *)

\* The bytes of screens, and the others there may be in a connection's output.
OtherBytes == AnswerBytes \cup {IAC}
OutputBytes == ScreenBytes \cup OtherBytes

\* The event loop writes bytes of screens, the task commands of three bytes.
LoopCalls == [op : {"writeByte"}, series : {<<b>> : b \in ScreenBytes}, left : Int] \cup {flushOutput}
Triples == {s \in Seq(OtherBytes) : Len(s) = 3}
TaskCalls == [op : {"writeBytes"}, series : Triples, left : {1, 2, 3}] \cup {flushOutput}

EndsInFlush(cs) == cs # <<>> => cs[Len(cs)] = flushOutput

\* Every command is written as a whole and flushed next.
Answering(cs) ==
  \A i \in 1 .. Len(cs) :
    cs[i].op = "writeBytes" => cs[i].left = 3 /\ i < Len(cs) /\ cs[i + 1] = flushOutput

\* LEMMA.  OutputBytes of screens are neither the escape byte nor bytes of answers.
LEMMA ScreensTyped ==
  /\ Screens \subseteq Seq(Seq(ScreenBytes))
  /\ IAC \notin ScreenBytes
  /\ ScreenBytes \cap OtherBytes = {}
<1>1. ASSUME NEW ss \in Screens
      PROVE  ss \in Seq(Seq(ScreenBytes)) /\ \A i \in DOMAIN ss : IAC \notin ToSet(ss[i])
  <2>1. ss \in Seq(Seq(STRING \ {IAC}))
    BY ScreensAssumption
  <2>2. Len(ss) \in Nat /\ DOMAIN ss = 1 .. Len(ss) /\ ss \in [1 .. Len(ss) -> Seq(STRING \ {IAC})]
    BY <2>1
  <2>3. ASSUME NEW i \in DOMAIN ss
        PROVE  ss[i] \in Seq(ScreenBytes) /\ IAC \notin ToSet(ss[i])
    <3>1. ss[i] \in Seq(STRING \ {IAC})
      BY <2>2
    <3>2. Len(ss[i]) \in Nat /\ DOMAIN ss[i] = 1 .. Len(ss[i])
          /\ ss[i] \in [1 .. Len(ss[i]) -> STRING \ {IAC}]
      BY <3>1
    <3>3. \A j \in DOMAIN ss[i] : ss[i][j] \in ToSet(ss[i])
      BY DEF ToSet
    <3>4. ToSet(ss[i]) \subseteq ScreenBytes
      BY DEF ScreenBytes
    <3>5. ss[i] \in [1 .. Len(ss[i]) -> ScreenBytes]
      BY <3>2, <3>3, <3>4
    <3>6. ss[i] \in Seq(ScreenBytes)
      BY <3>2, <3>5
    <3>7. IAC \notin ToSet(ss[i])
      BY <3>2 DEF ToSet
    <3>8. QED  BY <3>6, <3>7
  <2>4. ss \in [1 .. Len(ss) -> Seq(ScreenBytes)]
    BY <2>2, <2>3
  <2>5. QED  BY <2>2, <2>3, <2>4
<1>2. Screens \subseteq Seq(Seq(ScreenBytes))
  BY <1>1
<1>3. IAC \notin ScreenBytes
  <2>1. ASSUME NEW ss \in Screens, NEW i \in DOMAIN ss
        PROVE  IAC \notin ToSet(ss[i])
    BY <1>1, <2>1
  <2>2. ASSUME IAC \in ScreenBytes
        PROVE  \E ss \in Screens : IAC \in UNION {ToSet(ss[i]) : i \in DOMAIN ss}
    BY <2>2 DEF ScreenBytes
  <2>3. QED  BY <2>1, <2>2
<1>4. QED  BY <1>2, <1>3, NamesAssumption DEF OtherBytes

\* LEMMA.  The calls of either thread: the flush is the only one of its name.
LEMMA CallFacts ==
  /\ flushOutput \in LoopCalls /\ flushOutput \in TaskCalls
  /\ flushOutput.op = "flushOutput" /\ flushOutput.series = <<>>
  /\ \A c \in LoopCalls :
       c # flushOutput => c.op = "writeByte" /\ \E b \in ScreenBytes : c.series = <<b>>
  /\ \A c \in TaskCalls :
       c # flushOutput => c.op = "writeBytes" /\ c.series \in Triples /\ c.left \in {1, 2, 3}
<1>1. flushOutput = [op |-> "flushOutput", series |-> <<>>, left |-> 0]
  BY DEF flushOutput, Call
<1>2. ASSUME NEW c \in LoopCalls, c # flushOutput
      PROVE  c.op = "writeByte" /\ \E b \in ScreenBytes : c.series = <<b>>
  BY <1>2 DEF LoopCalls
<1>3. ASSUME NEW c \in TaskCalls, c # flushOutput
      PROVE  c.op = "writeBytes" /\ c.series \in Triples /\ c.left \in {1, 2, 3}
  BY <1>3 DEF TaskCalls
<1>4. QED  BY <1>1, <1>2, <1>3 DEF LoopCalls, TaskCalls

\* LEMMA.  The calls that are left when the first one is made.
LEMMA RestFacts ==
  ASSUME NEW S, NEW cs \in Seq(S), cs # <<>>
  PROVE  /\ Head(cs) = cs[1] /\ cs[1] \in S /\ Len(cs) \in Nat \ {0}
         /\ Tail(cs) \in Seq(S) /\ Len(Tail(cs)) = Len(cs) - 1
         /\ \A i \in 1 .. Len(cs) - 1 : Tail(cs)[i] = cs[i + 1]
         /\ Tail(cs) = <<>> <=> Len(cs) = 1
         /\ EndsInFlush(cs) => EndsInFlush(Tail(cs))
         /\ EndsInFlush(cs) /\ Tail(cs) = <<>> => Head(cs) = flushOutput
         /\ Answering(cs) => Answering(Tail(cs))
<1>1. /\ Head(cs) = cs[1] /\ cs[1] \in S /\ Len(cs) \in Nat \ {0}
      /\ Tail(cs) \in Seq(S) /\ Len(Tail(cs)) = Len(cs) - 1
      /\ \A i \in 1 .. Len(cs) - 1 : Tail(cs)[i] = cs[i + 1]
      /\ Tail(cs) = <<>> <=> Len(cs) = 1
  <2>1. /\ Head(cs) = cs[1] /\ cs[1] \in S /\ Len(cs) \in Nat \ {0}
        /\ Tail(cs) \in Seq(S) /\ Len(Tail(cs)) = Len(cs) - 1
    OBVIOUS
  <2>2. \A i \in 1 .. Len(cs) - 1 : Tail(cs)[i] = cs[i + 1]
    BY <2>1, HeadTailProperties
  <2>3. PICK t \in Seq(S) : t = Tail(cs)
    BY <2>1
  <2>4. t = <<>> <=> Len(t) = 0
    OBVIOUS
  <2>5. QED  BY <2>1, <2>2, <2>3, <2>4
<1>2. PICK rest \in Seq(S), n \in Nat \ {0} : rest = Tail(cs) /\ n = Len(cs)
  BY <1>1
<1>3. EndsInFlush(cs) => EndsInFlush(rest)
  BY <1>1, <1>2 DEF EndsInFlush
<1>4. EndsInFlush(cs) /\ rest = <<>> => Head(cs) = flushOutput
  BY <1>1, <1>2 DEF EndsInFlush
<1>5. ASSUME Answering(cs), NEW i \in 1 .. Len(rest), rest[i].op = "writeBytes"
      PROVE  rest[i].left = 3 /\ i < Len(rest) /\ rest[i + 1] = flushOutput
  <2>1. /\ i + 1 \in 1 .. n /\ rest[i] = cs[i + 1] /\ Len(rest) = n - 1
        /\ (i + 1 < n => i < n - 1 /\ i + 1 \in 1 .. n - 1 /\ rest[i + 1] = cs[(i + 1) + 1])
    BY <1>1, <1>2
  <2>2. cs[i + 1].left = 3 /\ i + 1 < n /\ cs[(i + 1) + 1] = flushOutput
    BY <1>2, <1>5, <2>1 DEF Answering
  <2>3. QED  BY ONLY <2>1, <2>2
<1>6. Answering(cs) => Answering(rest)
  BY <1>5 DEF Answering
<1>7. QED  BY <1>1, <1>2, <1>3, <1>4, <1>6

\* LEMMA.  The calls that are left when one more comes before them.
LEMMA OneMore ==
  ASSUME NEW S, NEW rest \in Seq(S), NEW a \in S, EndsInFlush(rest), NEW cs, cs = <<a>> \o rest
  PROVE  /\ cs \in Seq(S) /\ cs # <<>> /\ Head(cs) = a /\ Tail(cs) = rest
         /\ a = flushOutput \/ rest # <<>> => EndsInFlush(cs)
         /\ Answering(rest) /\ a.op # "writeBytes" => Answering(cs)
<1>1. /\ cs \in Seq(S) /\ cs # <<>> /\ Head(cs) = a /\ cs[1] = a /\ Len(cs) = Len(rest) + 1
      /\ \A i \in 1 .. Len(rest) : cs[i + 1] = rest[i]
      /\ Len(rest) \in Nat /\ (rest # <<>> => Len(rest) # 0)
  OBVIOUS
<1>2. Tail(cs) = rest
  <2>1. Len(Tail(cs)) = Len(rest) /\ Tail(cs) \in Seq(S)
        /\ \A i \in 1 .. Len(rest) : Tail(cs)[i] = rest[i]
    BY <1>1, HeadTailProperties
  <2>2. PICK t \in Seq(S) : t = Tail(cs)
    BY <2>1
  <2>3. t = rest
    BY <2>1, <2>2, SeqEqual
  <2>4. QED  BY <2>2, <2>3
<1>3. a = flushOutput \/ rest # <<>> => EndsInFlush(cs)
  <2>1. CASE rest = <<>>
    <3>1. Len(cs) = 1
      BY <1>1, <2>1
    <3>2. QED  BY <1>1, <2>1, <3>1 DEF EndsInFlush
  <2>2. CASE rest # <<>>
    <3>1. Len(rest) \in 1 .. Len(rest) /\ rest[Len(rest)] = flushOutput
      BY <1>1, <2>2 DEF EndsInFlush
    <3>2. QED  BY <1>1, <3>1 DEF EndsInFlush
  <2>3. QED  BY <2>1, <2>2
<1>4. ASSUME Answering(rest), a.op # "writeBytes", NEW i \in 1 .. Len(cs), cs[i].op = "writeBytes"
      PROVE  cs[i].left = 3 /\ i < Len(cs) /\ cs[i + 1] = flushOutput
  <2>1. i # 1
    BY <1>1, <1>4
  <2>2. /\ i - 1 \in 1 .. Len(rest) /\ cs[i] = rest[i - 1]
        /\ (i - 1 < Len(rest) => i < Len(cs) /\ i \in 1 .. Len(rest) /\ cs[i + 1] = rest[(i - 1) + 1])
    BY <1>1, <2>1
  <2>3. rest[i - 1].left = 3 /\ i - 1 < Len(rest) /\ rest[(i - 1) + 1] = flushOutput
    BY <1>4, <2>2 DEF Answering
  <2>4. QED  BY ONLY <2>2, <2>3
<1>5. QED  BY <1>1, <1>2, <1>3, <1>4 DEF Answering

\* What the calls write: the bytes of screens among it, and the bytes of answers.
Series(cs) == FlattenSeq([i \in DOMAIN cs |-> cs[i].series])
SeriesOf == [c \in TaskCalls |-> c.series]
ShownBy(cs) ==
  FlattenSeq([i \in DOMAIN cs |-> IF cs[i].op = "writeByte" THEN cs[i].series ELSE <<>>])
ShownByCall == [c \in LoopCalls |-> IF c.op = "writeByte" THEN c.series ELSE <<>>]
OfScreensOnly == [b \in OutputBytes |-> IF b \in ScreenBytes THEN <<b>> ELSE <<>>]

\* LEMMA.  These are lists made element by element, of typed elements.
LEMMA AsEach ==
  /\ OfScreensOnly \in [OutputBytes -> Seq(ScreenBytes)]
  /\ \A bytes \in Seq(OutputBytes) : OfScreens(bytes) = Each(bytes, OfScreensOnly)
  /\ ShownByCall \in [LoopCalls -> Seq(ScreenBytes)]
  /\ \A cs \in Seq(LoopCalls) : ShownBy(cs) = Each(cs, ShownByCall)
  /\ SeriesOf \in [TaskCalls -> Seq(OtherBytes)]
  /\ \A cs \in Seq(TaskCalls) : Series(cs) = Each(cs, SeriesOf)
<1>1. ASSUME NEW b \in OutputBytes
      PROVE  (IF b \in ScreenBytes THEN <<b>> ELSE <<>>) \in Seq(ScreenBytes)
  OBVIOUS
<1>2. OfScreensOnly \in [OutputBytes -> Seq(ScreenBytes)]
  BY <1>1 DEF OfScreensOnly
<1>3. ASSUME NEW c \in LoopCalls
      PROVE  (IF c.op = "writeByte" THEN c.series ELSE <<>>) \in Seq(ScreenBytes)
  <2>1. CASE c = flushOutput
    BY <2>1, CallFacts
  <2>2. CASE c # flushOutput
    <3>1. PICK b \in ScreenBytes : c.series = <<b>>
      BY <2>2, CallFacts
    <3>2. QED  BY <3>1
  <2>3. QED  BY <2>1, <2>2
<1>4. ShownByCall \in [LoopCalls -> Seq(ScreenBytes)]
  BY <1>3 DEF ShownByCall
<1>5. ASSUME NEW c \in TaskCalls
      PROVE  c.series \in Seq(OtherBytes)
  <2>1. CASE c = flushOutput
    BY <2>1, CallFacts
  <2>2. CASE c # flushOutput
    <3>1. c.series \in Triples
      BY <2>2, CallFacts
    <3>2. QED  BY <3>1 DEF Triples
  <2>3. QED  BY <2>1, <2>2
<1>6. SeriesOf \in [TaskCalls -> Seq(OtherBytes)]
  BY <1>5 DEF SeriesOf
<1>7. ASSUME NEW bytes \in Seq(OutputBytes)
      PROVE  OfScreens(bytes) = Each(bytes, OfScreensOnly)
  <2>1. \A i \in DOMAIN bytes : bytes[i] \in OutputBytes
    OBVIOUS
  <2>2. Made(bytes, OfScreensOnly) =
          [i \in DOMAIN bytes |-> IF bytes[i] \in ScreenBytes THEN <<bytes[i]>> ELSE <<>>]
    BY <2>1 DEF Made, OfScreensOnly
  <2>3. QED  BY <2>2 DEF Each, OfScreens
<1>8. ASSUME NEW cs \in Seq(LoopCalls)
      PROVE  ShownBy(cs) = Each(cs, ShownByCall)
  <2>1. \A i \in DOMAIN cs : cs[i] \in LoopCalls
    OBVIOUS
  <2>2. Made(cs, ShownByCall) =
          [i \in DOMAIN cs |-> IF cs[i].op = "writeByte" THEN cs[i].series ELSE <<>>]
    BY <2>1 DEF Made, ShownByCall
  <2>3. QED  BY <2>2 DEF Each, ShownBy
<1>9. ASSUME NEW cs \in Seq(TaskCalls)
      PROVE  Series(cs) = Each(cs, SeriesOf)
  <2>1. \A i \in DOMAIN cs : cs[i] \in TaskCalls
    OBVIOUS
  <2>2. Made(cs, SeriesOf) = [i \in DOMAIN cs |-> cs[i].series]
    BY <2>1 DEF Made, SeriesOf
  <2>3. QED  BY <2>2 DEF Each, Series
<1>10. QED  BY <1>2, <1>4, <1>6, <1>7, <1>8, <1>9

\* LEMMA.  Of what is sent, the bytes of screens are those of its parts.
LEMMA OfScreensFacts ==
  /\ OfScreens(<<>>) = <<>>
  /\ \A b \in ScreenBytes : OfScreens(<<b>>) = <<b>>
  /\ \A x \in Seq(OutputBytes) : OfScreens(x) \in Seq(ScreenBytes)
  /\ \A x \in Seq(OtherBytes) : OfScreens(x) = <<>>
  /\ \A x, y \in Seq(OutputBytes) : OfScreens(x \o y) = OfScreens(x) \o OfScreens(y)
<1> DEFINE O == OfScreensOnly
<1>1. O \in [OutputBytes -> Seq(ScreenBytes)] /\ \A x \in Seq(OutputBytes) : OfScreens(x) = Each(x, O)
  BY AsEach
<1>2. ASSUME NEW b \in ScreenBytes
      PROVE  OfScreens(<<b>>) = <<b>>
  <2>1. b \in OutputBytes /\ <<b>> \in Seq(OutputBytes) /\ O[b] = <<b>>
    BY DEF OutputBytes, OfScreensOnly
  <2> HIDE DEF O
  <2>2. Each(<<b>>, O) = O[b]
    BY <1>1, <2>1, EachFacts
  <2>3. QED  BY <1>1, <2>1, <2>2
<1>3. ASSUME NEW x \in Seq(OtherBytes)
      PROVE  OfScreens(x) = <<>>
  <2>1. x \in Seq(OutputBytes)
    BY SeqMonotonic DEF OutputBytes
  <2>2. \A i \in 1 .. Len(x) : x[i] \in OutputBytes /\ x[i] \notin ScreenBytes
    BY ScreensTyped DEF OutputBytes
  <2>3. \A i \in 1 .. Len(x) : O[x[i]] = <<>>
    BY <2>2 DEF OfScreensOnly
  <2> HIDE DEF O
  <2>4. Makes(OutputBytes, ScreenBytes, O, x)
    BY <1>1, <2>1 DEF Makes
  <2>5. Each(x, O) = <<>>
    BY <2>3, <2>4, EachNothing
  <2>6. QED  BY <1>1, <2>1, <2>5
<1>4. ASSUME NEW x \in Seq(OutputBytes), NEW y \in Seq(OutputBytes)
      PROVE  OfScreens(x \o y) = OfScreens(x) \o OfScreens(y) /\ OfScreens(x) \in Seq(ScreenBytes)
  <2> HIDE DEF O
  <2>1. Makes(OutputBytes, ScreenBytes, O, x) /\ Makes(OutputBytes, ScreenBytes, O, y) /\ x \o y \in Seq(OutputBytes)
    BY <1>1 DEF Makes
  <2>2. Each(x \o y, O) = Each(x, O) \o Each(y, O) /\ Each(x, O) \in Seq(ScreenBytes)
    BY <2>1, EachConcat, EachTyped
  <2>3. QED  BY <1>1, <2>1, <2>2
<1>5. OfScreens(<<>>) = <<>>
  <2>1. <<>> \in Seq(OtherBytes)
    OBVIOUS
  <2>2. QED  BY <1>3, <2>1
<1>6. QED  BY <1>2, <1>3, <1>4, <1>5

\* LEMMA.  The bytes of screens that calls have still to write are those of the first of
\* them, then those of the others.
LEMMA ShownFacts ==
  /\ ShownBy(<<>>) = <<>>
  /\ \A c \in LoopCalls : ShownBy(<<c>>) = IF c.op = "writeByte" THEN c.series ELSE <<>>
  /\ \A x, y \in Seq(LoopCalls) : ShownBy(x \o y) = ShownBy(x) \o ShownBy(y)
  /\ \A x \in Seq(LoopCalls) : ShownBy(x) \in Seq(ScreenBytes)
<1> DEFINE O == ShownByCall
<1>1. O \in [LoopCalls -> Seq(ScreenBytes)] /\ \A x \in Seq(LoopCalls) : ShownBy(x) = Each(x, O)
  BY AsEach
<1>2. ASSUME NEW c \in LoopCalls
      PROVE  ShownBy(<<c>>) = IF c.op = "writeByte" THEN c.series ELSE <<>>
  <2>1. <<c>> \in Seq(LoopCalls) /\ O[c] = IF c.op = "writeByte" THEN c.series ELSE <<>>
    BY DEF ShownByCall
  <2> HIDE DEF O
  <2>2. Each(<<c>>, O) = O[c]
    BY <1>1, EachFacts
  <2>3. QED  BY <1>1, <2>1, <2>2
<1> HIDE DEF O
<1>3. ASSUME NEW x \in Seq(LoopCalls), NEW y \in Seq(LoopCalls)
      PROVE  ShownBy(x \o y) = ShownBy(x) \o ShownBy(y) /\ ShownBy(x) \in Seq(ScreenBytes)
  <2>1. Makes(LoopCalls, ScreenBytes, O, x) /\ Makes(LoopCalls, ScreenBytes, O, y)
        /\ x \o y \in Seq(LoopCalls)
    BY <1>1 DEF Makes
  <2>2. Each(x \o y, O) = Each(x, O) \o Each(y, O) /\ Each(x, O) \in Seq(ScreenBytes)
    BY <2>1, EachConcat, EachTyped
  <2>3. QED  BY <1>1, <2>1, <2>2
<1>4. ShownBy(<<>>) = <<>>
  <2>1. <<>> \in Seq(LoopCalls) /\ Each(<<>>, O) = <<>>
    BY <1>1, EachFacts
  <2>2. QED  BY <1>1, <2>1
<1>5. QED  BY <1>2, <1>3, <1>4

\* LEMMA.  What the task has still to send is that of its first call, then of the others.
LEMMA SeriesFacts ==
  /\ Series(<<>>) = <<>>
  /\ \A c \in TaskCalls : Series(<<c>>) = c.series
  /\ \A x, y \in Seq(TaskCalls) : Series(x \o y) = Series(x) \o Series(y)
  /\ \A x \in Seq(TaskCalls) : Series(x) \in Seq(OtherBytes)
<1> DEFINE O == SeriesOf
<1>1. O \in [TaskCalls -> Seq(OtherBytes)] /\ \A x \in Seq(TaskCalls) : Series(x) = Each(x, O)
  BY AsEach
<1>2. ASSUME NEW c \in TaskCalls
      PROVE  Series(<<c>>) = c.series
  <2>1. <<c>> \in Seq(TaskCalls) /\ O[c] = c.series
    BY DEF SeriesOf
  <2> HIDE DEF O
  <2>2. Each(<<c>>, O) = O[c]
    BY <1>1, EachFacts
  <2>3. QED  BY <1>1, <2>1, <2>2
<1> HIDE DEF O
<1>3. ASSUME NEW x \in Seq(TaskCalls), NEW y \in Seq(TaskCalls)
      PROVE  Series(x \o y) = Series(x) \o Series(y) /\ Series(x) \in Seq(OtherBytes)
  <2>1. Makes(TaskCalls, OtherBytes, O, x) /\ Makes(TaskCalls, OtherBytes, O, y)
        /\ x \o y \in Seq(TaskCalls)
    BY <1>1 DEF Makes
  <2>2. Each(x \o y, O) = Each(x, O) \o Each(y, O) /\ Each(x, O) \in Seq(OtherBytes)
    BY <2>1, EachConcat, EachTyped
  <2>3. QED  BY <1>1, <2>1, <2>2
<1>4. Series(<<>>) = <<>>
  <2>1. <<>> \in Seq(TaskCalls) /\ Each(<<>>, O) = <<>>
    BY <1>1, EachFacts
  <2>2. QED  BY <1>1, <2>1
<1>5. QED  BY <1>2, <1>3, <1>4

\* LEMMA.  sendMenu's calls write the screen, byte by byte, and flush.
LEMMA ScreenWork ==
  ASSUME NEW screen \in Seq(ScreenBytes),
         NEW work, work = [i \in DOMAIN screen |-> writeByte(screen[i])] \o <<flushOutput>>
  PROVE  /\ work \in Seq(LoopCalls) /\ work # <<>> /\ EndsInFlush(work)
         /\ ShownBy(work) = screen
<1> DEFINE made == [b \in ScreenBytes |-> writeByte(b)]
           first == [i \in DOMAIN screen |-> writeByte(screen[i])]
           single == [b \in ScreenBytes |-> <<b>>]
           O == ShownByCall
<1>1. ASSUME NEW b \in ScreenBytes
      PROVE  writeByte(b) \in LoopCalls /\ O[writeByte(b)] = <<b>>
  <2>1. writeByte(b) = [op |-> "writeByte", series |-> <<b>>, left |-> 1]
    BY ScreensTyped DEF writeByte, Call
  <2>2. writeByte(b) \in LoopCalls
    BY <2>1 DEF LoopCalls
  <2>3. QED  BY <2>1, <2>2 DEF ShownByCall
<1>2. Len(screen) \in Nat /\ DOMAIN screen = 1 .. Len(screen)
      /\ \A i \in 1 .. Len(screen) : screen[i] \in ScreenBytes
  OBVIOUS
<1>3. first \in Seq(LoopCalls) /\ DOMAIN first = DOMAIN screen
  BY <1>1, <1>2
<1>4. Made(first, O) = Made(screen, single)
  <2>1. \A i \in DOMAIN screen : O[first[i]] = <<screen[i]>> /\ single[screen[i]] = <<screen[i]>>
    BY <1>1, <1>2
  <2> HIDE DEF O, single
  <2>2. QED  BY <1>3, <2>1 DEF Made
<1>5. ShownBy(first) = screen
  <2>1. ShownBy(first) = Each(first, O)
    BY <1>3, AsEach
  <2>2. Each(first, O) = Each(screen, single)
    <3> HIDE DEF O, single, first
    <3>1. QED  BY <1>4 DEF Each
  <2>3. Makes(ScreenBytes, ScreenBytes, single, screen)
    BY DEF Makes
  <2>4. \A i \in 1 .. Len(screen) : screen[i] \in ScreenBytes /\ single[screen[i]] = <<screen[i]>>
    BY <1>2
  <2> HIDE DEF O, single, first
  <2>5. Each(screen, single) = screen
    BY <2>3, <2>4, EachItself
  <2>6. QED  BY <2>1, <2>2, <2>5
<1> HIDE DEF O, single, made
<1>6. PICK x \in Seq(LoopCalls) : x = first
  BY <1>3
<1> HIDE DEF first
<1>7. work = x \o <<flushOutput>>
  BY <1>6 DEF first
<1>8. <<flushOutput>> \in Seq(LoopCalls) /\ ShownBy(<<flushOutput>>) = <<>>
  BY CallFacts, ShownFacts
<1>9. ShownBy(work) = screen
  <2>1. ShownBy(work) = ShownBy(x) \o <<>>
    BY <1>7, <1>8, ShownFacts
  <2>2. screen \o <<>> = screen
    OBVIOUS
  <2>3. QED  BY <1>5, <1>6, <2>1, <2>2
<1>10. work \in Seq(LoopCalls) /\ work # <<>> /\ EndsInFlush(work)
  <2>1. work \in Seq(LoopCalls) /\ Len(work) = Len(x) + 1 /\ Len(x) \in Nat
        /\ work[Len(x) + 1] = flushOutput
    <3>1. PICK c \in LoopCalls : c = flushOutput
      BY CallFacts
    <3>2. Len(x \o <<c>>) = Len(x) + 1 /\ (x \o <<c>>)[Len(x) + 1] = c
          /\ x \o <<c>> \in Seq(LoopCalls) /\ Len(x) \in Nat
      OBVIOUS
    <3>3. QED  BY <1>7, <3>1, <3>2
  <2>2. QED  BY <2>1 DEF EndsInFlush
<1>11. QED  BY <1>9, <1>10

\* The commands that answers are made of, and what is sent for each.
Replies == [type : {"WONT", "DONT"}, option : OtherBytes]
Encoded == [c \in Replies |-> commandBytes(c)]

\* The calls that send answers.
AnswerCalls == {cs \in Seq(TaskCalls) : EndsInFlush(cs) /\ Answering(cs)}

\* LEMMA.  The bytes that answers are made of are among the other bytes.
LEMMA OtherBytesFacts ==
  /\ {"WONT", "DONT", "none", IAC} \subseteq OtherBytes
  /\ \A bytes \in Inputs : ToSet(bytes) \subseteq OtherBytes
<1>1. {"WONT", "DONT", "none", IAC} \subseteq OtherBytes
  BY DEF OtherBytes, AnswerBytes
<1>2. ASSUME NEW bytes \in Inputs, NEW b \in ToSet(bytes)
      PROVE  b \in OtherBytes
  BY DEF OtherBytes, AnswerBytes
<1>3. QED  BY <1>1, <1>2

\* LEMMA.  The answer to a command is at most one command.
LEMMA ResponseFacts ==
  ASSUME NEW bytes \in Inputs, NEW c \in CommandsOf(bytes)
  PROVE  response(c) = <<>> \/ \E r \in Replies : response(c) = <<r>>
<1>1. c.option \in OtherBytes
  <2>1. c.option \in ToSet(bytes) \cup {"none"}
    BY DEF CommandsOf
  <2>2. QED  BY <2>1, OtherBytesFacts
<1>2. Command("WONT", c.option) \in Replies /\ Command("DONT", c.option) \in Replies
  BY <1>1 DEF Command, Replies
<1>3. CASE c.type \in {"DO", "DONT"} /\ c.option # "ECHO"
  <2>1. CASE c.type \in {"WILL", "WONT"} /\ c.option # "LINEMODE"
    BY <1>3, <2>1
  <2>2. CASE ~(c.type \in {"WILL", "WONT"} /\ c.option # "LINEMODE")
    <3>1. response(c) = <<Command("WONT", c.option)>>
      BY <1>3, <2>2, Zenon DEF response
    <3>2. QED  BY <1>2, <3>1
  <2>3. QED  BY <2>1, <2>2
<1>4. CASE /\ ~(c.type \in {"DO", "DONT"} /\ c.option # "ECHO")
           /\ c.type \in {"WILL", "WONT"} /\ c.option # "LINEMODE"
  <2>1. response(c) = <<Command("DONT", c.option)>>
    BY <1>4, Zenon DEF response
  <2>2. QED  BY <1>2, <2>1
<1>5. CASE /\ ~(c.type \in {"DO", "DONT"} /\ c.option # "ECHO")
           /\ ~(c.type \in {"WILL", "WONT"} /\ c.option # "LINEMODE")
  BY <1>5, Zenon DEF response
<1>6. QED  BY <1>3, <1>4, <1>5

\* LEMMA.  A command of an answer is sent as three bytes.
LEMMA EncodedFacts ==
  /\ Encoded \in [Replies -> Seq(OtherBytes)]
  /\ \A c \in Replies : Encoded[c] = commandBytes(c) /\ commandBytes(c) \in Triples
<1>1. ASSUME NEW c \in Replies
      PROVE  commandBytes(c) \in Triples
  <2>1. c.type \in {"WONT", "DONT"} /\ c.option \in OtherBytes
    BY DEF Replies
  <2>0. c.type \in OtherBytes /\ IAC \in OtherBytes
    BY <2>1, OtherBytesFacts
  <2>2. commandBytes(c) = <<IAC, c.type, c.option>>
    BY DEF commandBytes
  <2>3. \A x, y, z \in OtherBytes : <<x, y, z>> \in Seq(OtherBytes) /\ Len(<<x, y, z>>) = 3
    OBVIOUS
  <2>4. QED  BY <2>0, <2>1, <2>2, <2>3 DEF Triples
<1>2. QED  BY <1>1 DEF Encoded, Triples

\* LEMMA.  The calls for the answer to one command.
LEMMA SendFacts ==
  ASSUME NEW a, a = <<>> \/ \E r \in Replies : a = <<r>>
  PROVE  /\ sendCommands(a) \in AnswerCalls
         /\ Series(sendCommands(a)) = Each(a, Encoded)
<1>0. <<flushOutput>> \in Seq(TaskCalls) /\ Series(<<flushOutput>>) = <<>>
  BY CallFacts, SeriesFacts
<1>1. CASE a = <<>>
  <2>1. sendCommands(a) = <<flushOutput>>
    <3>1. [i \in DOMAIN a |-> Call("writeBytes", commandBytes(a[i]))] = <<>>
      BY <1>1
    <3>2. <<>> \o <<flushOutput>> = <<flushOutput>>
      BY <1>0
    <3>3. QED  BY <3>1, <3>2 DEF sendCommands
  <2>2. <<flushOutput>> \in AnswerCalls
    <3>1. <<flushOutput>>[1] = flushOutput /\ Len(<<flushOutput>>) = 1
          /\ flushOutput.op # "writeBytes" /\ \A i \in 1 .. 1 : i = 1
      BY CallFacts
    <3>2. QED  BY <1>0, <3>1 DEF AnswerCalls, EndsInFlush, Answering
  <2>3. Each(a, Encoded) = <<>>
    BY <1>1, EncodedFacts, EachFacts
  <2>4. QED  BY <1>0, <2>1, <2>2, <2>3
<1>2. ASSUME NEW r \in Replies, a = <<r>>
      PROVE  /\ sendCommands(a) \in AnswerCalls
             /\ Series(sendCommands(a)) = Each(a, Encoded)
  <2>1. PICK c : c = Call("writeBytes", commandBytes(r))
    OBVIOUS
  <2>2. c = [op |-> "writeBytes", series |-> commandBytes(r), left |-> 3]
    BY <2>1, EncodedFacts DEF Call, Triples
  <2>3. c \in TaskCalls
    BY <2>2, EncodedFacts DEF TaskCalls
  <2>4. sendCommands(a) = <<c>> \o <<flushOutput>>
    <3>1. [i \in DOMAIN a |-> Call("writeBytes", commandBytes(a[i]))] = <<c>>
      BY <1>2, <2>1
    <3>2. QED  BY <3>1 DEF sendCommands
  <2>5. PICK cs \in Seq(TaskCalls) : cs = <<c>> \o <<flushOutput>> /\ Len(cs) = 2
                                      /\ cs[1] = c /\ cs[2] = flushOutput
    <3>1. PICK f \in TaskCalls : f = flushOutput
      BY CallFacts
    <3>2. /\ <<c>> \o <<f>> \in Seq(TaskCalls) /\ Len(<<c>> \o <<f>>) = 2
          /\ (<<c>> \o <<f>>)[1] = c /\ (<<c>> \o <<f>>)[2] = f
      BY <2>3
    <3>3. QED  BY <3>1, <3>2
  <2>6. Answering(cs) /\ EndsInFlush(cs)
    <3>1. \A i \in 1 .. Len(cs) : cs[i].op = "writeBytes" => i = 1
      <4>1. \A i \in 1 .. Len(cs) : i = 1 \/ i = 2
        BY <2>5
      <4>2. flushOutput.op # "writeBytes"
        BY CallFacts
      <4>3. QED  BY <2>5, <4>1, <4>2
    <3>2. c.left = 3 /\ 1 < Len(cs) /\ cs[1 + 1] = flushOutput
      <4>1. 1 + 1 = 2
        OBVIOUS
      <4>2. QED  BY <2>2, <2>5, <4>1
    <3>3. QED  BY <2>5, <3>1, <3>2 DEF Answering, EndsInFlush
  <2>7. Series(cs) = commandBytes(r)
    <3>1. Series(<<c>>) = commandBytes(r) /\ <<c>> \in Seq(TaskCalls)
      BY <2>2, <2>3, SeriesFacts
    <3>2. Series(cs) = Series(<<c>>) \o Series(<<flushOutput>>)
      BY <1>0, <2>5, <3>1, SeriesFacts
    <3>3. commandBytes(r) \o <<>> = commandBytes(r)
      BY EncodedFacts DEF Triples
    <3>4. QED  BY <1>0, <3>1, <3>2, <3>3
  <2>8. Each(a, Encoded) = commandBytes(r)
    BY <1>2, EncodedFacts, EachFacts
  <2>9. QED  BY <2>4, <2>5, <2>6, <2>7, <2>8 DEF AnswerCalls
<1>3. QED  BY <1>1, <1>2

\* LEMMA.  The calls for two keys' answers, one after the other.
LEMMA AnswerCallsConcat ==
  ASSUME NEW x \in AnswerCalls, NEW y \in AnswerCalls
  PROVE  x \o y \in AnswerCalls
<1>1. x \in Seq(TaskCalls) /\ y \in Seq(TaskCalls) /\ x \o y \in Seq(TaskCalls)
  BY DEF AnswerCalls
<1>2. PICK z \in Seq(TaskCalls) : z = x \o y
  BY <1>1
<1>3. /\ Len(z) = Len(x) + Len(y) /\ Len(x) \in Nat /\ Len(y) \in Nat
      /\ \A i \in 1 .. Len(x) + Len(y) : z[i] = IF i <= Len(x) THEN x[i] ELSE y[i - Len(x)]
  BY <1>1, <1>2, ConcatProperties
<1>4. EndsInFlush(z)
  <2>1. CASE y = <<>>
    <3>1. z = x
      BY <1>1, <1>2, <2>1
    <3>2. QED  BY <3>1 DEF AnswerCalls
  <2>2. CASE y # <<>>
    <3>1. Len(y) > 0 /\ y[Len(y)] = flushOutput
      BY <1>1, <2>2 DEF AnswerCalls, EndsInFlush
    <3>2. Len(z) \in 1 .. Len(x) + Len(y) /\ ~(Len(z) <= Len(x)) /\ Len(z) - Len(x) = Len(y)
      BY <1>3, <3>1
    <3>3. z[Len(z)] = y[Len(z) - Len(x)]
      BY <1>3, <3>2
    <3>4. QED  BY <3>1, <3>2, <3>3 DEF EndsInFlush
  <2>3. QED  BY <2>1, <2>2
<1>5. ASSUME NEW i \in 1 .. Len(z), z[i].op = "writeBytes"
      PROVE  z[i].left = 3 /\ i < Len(z) /\ z[i + 1] = flushOutput
  <2>1. i \in 1 .. Len(x) + Len(y) /\ i \in Int
    BY <1>3
  <2>2. CASE i <= Len(x)
    <3>1. z[i] = x[i] /\ i \in 1 .. Len(x)
      BY <1>3, <2>1, <2>2
    <3>2. x[i].left = 3 /\ i < Len(x) /\ x[i + 1] = flushOutput
      BY <1>5, <3>1 DEF AnswerCalls, Answering
    <3>3. i + 1 \in 1 .. Len(x) + Len(y) /\ i + 1 <= Len(x) /\ i < Len(z)
      BY <1>3, <2>1, <3>2
    <3>4. z[i + 1] = x[i + 1]
      BY <1>3, <3>3
    <3>5. QED  BY <3>1, <3>2, <3>3, <3>4
  <2>3. CASE ~(i <= Len(x))
    <3>1. z[i] = y[i - Len(x)] /\ i - Len(x) \in 1 .. Len(y)
      BY <1>3, <2>1, <2>3
    <3>2. y[i - Len(x)].left = 3 /\ i - Len(x) < Len(y) /\ y[(i - Len(x)) + 1] = flushOutput
      BY <1>5, <3>1 DEF AnswerCalls, Answering
    <3>3. i + 1 \in 1 .. Len(x) + Len(y) /\ ~(i + 1 <= Len(x)) /\ i < Len(z)
          /\ (i + 1) - Len(x) = (i - Len(x)) + 1
      BY <1>3, <2>1, <2>3, <3>2
    <3>4. z[i + 1] = y[(i + 1) - Len(x)]
      BY <1>3, <3>3
    <3>5. QED  BY <3>1, <3>2, <3>3, <3>4
  <2>4. QED  BY <2>2, <2>3
<1>6. QED  BY <1>2, <1>4, <1>5 DEF AnswerCalls, Answering

\* What readKey makes of the commands before a key: the calls, and what they send.
Answers(bytes, new, answers, work, all, series) ==
  /\ bytes \in Inputs /\ new \in Seq(CommandsOf(bytes))
  /\ answers = [i \in DOMAIN new |-> response(new[i])]
  /\ work = FlattenSeq([i \in DOMAIN answers |-> sendCommands(answers[i])])
  /\ all = FlattenSeq(answers)
  /\ series = FlattenSeq([i \in DOMAIN all |-> commandBytes(all[i])])

\* LEMMA.  readKey's calls write the answers to the commands it met, each as a whole.
LEMMA AnswerWork ==
  ASSUME NEW bytes, NEW new, NEW answers, NEW work, NEW all, NEW series,
         Answers(bytes, new, answers, work, all, series)
  PROVE  work \in AnswerCalls /\ Series(work) = series
<1> USE DEF Answers
<1>1. Len(new) \in Nat /\ DOMAIN new = 1 .. Len(new)
      /\ \A i \in 1 .. Len(new) : new[i] \in CommandsOf(bytes)
  OBVIOUS
<1>2. \A i \in 1 .. Len(new) : answers[i] = <<>> \/ \E r \in Replies : answers[i] = <<r>>
  BY <1>1, ResponseFacts
<1>3. answers \in Seq(Seq(Replies)) /\ Len(answers) = Len(new) /\ DOMAIN answers = 1 .. Len(new)
  <2>1. ASSUME NEW i \in 1 .. Len(new)
        PROVE  response(new[i]) \in Seq(Replies)
    <3>1. response(new[i]) = <<>> \/ \E r \in Replies : response(new[i]) = <<r>>
      BY <1>1, ResponseFacts
    <3>2. <<>> \in Seq(Replies) /\ \A r \in Replies : <<r>> \in Seq(Replies)
      OBVIOUS
    <3>3. QED  BY ONLY <3>1, <3>2
  <2>2. [i \in 1 .. Len(new) |-> response(new[i])] \in Seq(Seq(Replies))
    BY <1>1, <2>1
  <2>3. QED  BY <1>1, <2>2
<1> DEFINE sends == [i \in 1 .. Len(new) |-> sendCommands(answers[i])]
           bytesOf == [i \in 1 .. Len(new) |-> Each(answers[i], Encoded)]
<1>4. \A i \in 1 .. Len(new) : /\ sends[i] \in AnswerCalls
                               /\ Series(sends[i]) = bytesOf[i]
                               /\ bytesOf[i] \in Seq(OtherBytes)
  <2>1. ASSUME NEW i \in 1 .. Len(new)
        PROVE  /\ sendCommands(answers[i]) \in AnswerCalls
               /\ Series(sendCommands(answers[i])) = Each(answers[i], Encoded)
    BY <1>2, SendFacts
  <2>2. ASSUME NEW i \in 1 .. Len(new)
        PROVE  Each(answers[i], Encoded) \in Seq(OtherBytes)
    <3>0. answers[i] \in Seq(Replies)
      BY <1>3
    <3>1. Makes(Replies, OtherBytes, Encoded, answers[i])
      BY <3>0, EncodedFacts DEF Makes
    <3>2. QED  BY <3>1, EachTyped
  <2>3. \A i \in 1 .. Len(new) : /\ sends[i] = sendCommands(answers[i])
                                  /\ bytesOf[i] = Each(answers[i], Encoded)
    OBVIOUS
  <2> HIDE DEF sends, bytesOf
  <2>4. QED  BY <2>1, <2>2, <2>3
<1>5. sends \in Seq(AnswerCalls) /\ Len(sends) = Len(new)
      /\ bytesOf \in Seq(Seq(OtherBytes)) /\ Len(bytesOf) = Len(new)
  BY <1>1, <1>4
<1>6. work = FlattenSeq(sends)
  BY <1>3
<1> HIDE DEF sends, bytesOf
<1>7. work \in AnswerCalls
  <2>1. <<>> \in AnswerCalls
    <3>1. <<>> \in Seq(TaskCalls) /\ Len(<<>>) = 0
      OBVIOUS
    <3>2. QED  BY <3>1 DEF AnswerCalls, EndsInFlush, Answering
  <2>2. AnswerCalls \in SUBSET Seq(TaskCalls)
    BY DEF AnswerCalls
  <2>3. \A x, y \in AnswerCalls : x \o y \in AnswerCalls
    BY AnswerCallsConcat
  <2>4. FlattenSeq(sends) \in AnswerCalls
    BY <1>5, <2>1, <2>2, <2>3, FlattenKeeps
  <2>5. QED  BY <1>6, <2>4
<1>8. Each(FlattenSeq(sends), SeriesOf) = FlattenSeq(bytesOf)
  <2>1. sends \in Seq(Seq(TaskCalls)) /\ SeriesOf \in [TaskCalls -> Seq(OtherBytes)]
    BY <1>5, SeqMonotonic, AsEach DEF AnswerCalls
  <2>2. ASSUME NEW i \in 1 .. Len(sends)
        PROVE  bytesOf[i] = Each(sends[i], SeriesOf)
    <3>1. sends[i] \in Seq(TaskCalls) /\ Series(sends[i]) = bytesOf[i]
      BY <1>4, <1>5 DEF AnswerCalls
    <3>2. Series(sends[i]) = Each(sends[i], SeriesOf)
      BY <3>1, AsEach
    <3>3. QED  BY <3>1, <3>2
  <2>3. MakesAll(TaskCalls, OtherBytes, SeriesOf, sends, bytesOf)
    BY <1>5, <2>1, <2>2 DEF MakesAll
  <2>4. QED  BY <2>3, EachOfFlat
<1>9. Each(all, Encoded) = FlattenSeq(bytesOf)
  <2>1. \A i \in 1 .. Len(answers) : bytesOf[i] = Each(answers[i], Encoded)
    BY <1>3 DEF bytesOf
  <2>2. MakesAll(Replies, OtherBytes, Encoded, answers, bytesOf)
    BY <1>3, <1>5, <2>1, EncodedFacts DEF MakesAll
  <2>3. Each(FlattenSeq(answers), Encoded) = FlattenSeq(bytesOf)
    BY <2>2, EachOfFlat
  <2>4. QED  BY <2>3
<1>10. Each(all, Encoded) = FlattenSeq([i \in DOMAIN all |-> commandBytes(all[i])])
  <2>1. all \in Seq(Replies)
    BY <1>3, FlattenFacts
  <2>2. \A i \in DOMAIN all : all[i] \in Replies
    BY <2>1
  <2>3. Made(all, Encoded) = [i \in DOMAIN all |-> commandBytes(all[i])]
    BY <2>2, EncodedFacts DEF Made
  <2>4. QED  BY <2>3 DEF Each
<1>11. Series(work) = Each(work, SeriesOf)
  BY <1>7, AsEach DEF AnswerCalls
<1>12. QED  BY <1>6, <1>7, <1>8, <1>9, <1>10, <1>11

-------------------------------------------------------------------------------
(* The stream and its buffer                                               *)

\* The bytes of the buffer before the cursor.
Filled(buffer, cursor) == [i \in 1 .. cursor |-> buffer[i - 1]]

Flushing == \E w \in Threads : loaded[w] # -1 /\ Head(calls[w]).op = "flushOutput"

CallsOf(w) == IF w = "loop" THEN LoopCalls ELSE TaskCalls

\* What a thread has still to call; it goes on only with a byte or with a flush.
ThreadInv(w, cs, l) ==
  /\ cs \in Seq(CallsOf(w)) /\ EndsInFlush(cs)
  /\ l \in Nat \cup {-1}
  /\ l # -1 => cs # <<>> /\ Head(cs).op # "writeBytes"

ConnectionTypes ==
  /\ input \in Inputs /\ pos \in Positions(input)
  /\ output_buffer \in [0 .. BufferSize - 1 -> OutputBytes]
  /\ buffer_cursor \in Nat /\ (~outside => buffer_cursor <= BufferSize)
  /\ wire \in Seq(OutputBytes) /\ begun \in Seq(ScreenBytes)
  /\ screens \in Seq(Seq(ScreenBytes))
  /\ calls \in [Threads -> Seq(LoopCalls) \cup Seq(TaskCalls)]
  /\ loaded \in [Threads -> Nat \cup {-1}]
  /\ \A w \in Threads : ThreadInv(w, calls[w], loaded[w])

\* LEMMA.  What is before the cursor is bytes, as many as the cursor says.
LEMMA FilledTyped ==
  ASSUME NEW buffer \in [0 .. BufferSize - 1 -> OutputBytes], NEW cursor \in Nat, cursor <= BufferSize
  PROVE  Filled(buffer, cursor) \in Seq(OutputBytes) /\ Len(Filled(buffer, cursor)) = cursor
<1>1. \A i \in 1 .. cursor : buffer[i - 1] \in OutputBytes
  BY BufferSizeAssumption
<1>2. QED  BY <1>1 DEF Filled

\* The buffer with bytes stored from a place on.
Stored(buffer, series, at) ==
  [i \in DOMAIN buffer |-> IF i \in at .. at + Len(series) - 1 THEN series[i - at + 1] ELSE buffer[i]]

\* LEMMA.  Storing changes neither what the buffer is of nor its size.
LEMMA StoredTyped ==
  ASSUME NEW buffer \in [0 .. BufferSize - 1 -> OutputBytes], NEW series \in Seq(OutputBytes), NEW at \in Nat
  PROVE  Stored(buffer, series, at) \in [0 .. BufferSize - 1 -> OutputBytes]
<1>1. ASSUME NEW i \in 0 .. BufferSize - 1, i \in at .. at + Len(series) - 1
      PROVE  series[i - at + 1] \in OutputBytes
  <2>1. i - at + 1 \in 1 .. Len(series)
    BY <1>1
  <2>2. QED  BY <2>1
<1>2. DOMAIN buffer = 0 .. BufferSize - 1 /\ \A i \in 0 .. BufferSize - 1 : buffer[i] \in OutputBytes
  OBVIOUS
<1>3. QED  BY <1>1, <1>2 DEF Stored

\* LEMMA.  What is stored at the cursor comes after what is there.
LEMMA StoredFills ==
  ASSUME NEW buffer \in [0 .. BufferSize - 1 -> OutputBytes], NEW series \in Seq(OutputBytes), NEW at \in Nat,
         at + Len(series) <= BufferSize
  PROVE  Filled(Stored(buffer, series, at), at + Len(series)) = Filled(buffer, at) \o series
<1>1. PICK n \in Nat : n = Len(series)
  OBVIOUS
<1>2. BufferSize \in Nat /\ at + n <= BufferSize /\ at <= BufferSize
  BY <1>1, BufferSizeAssumption
<1>3. PICK new \in [0 .. BufferSize - 1 -> OutputBytes] :
        /\ new = Stored(buffer, series, at)
        /\ \A i \in 0 .. BufferSize - 1 :
             new[i] = IF i \in at .. at + n - 1 THEN series[i - at + 1] ELSE buffer[i]
  <2>1. DOMAIN buffer = 0 .. BufferSize - 1
    OBVIOUS
  <2>2. Stored(buffer, series, at) \in [0 .. BufferSize - 1 -> OutputBytes]
    BY StoredTyped
  <2>3. \A i \in 0 .. BufferSize - 1 :
          Stored(buffer, series, at)[i] =
            IF i \in at .. at + n - 1 THEN series[i - at + 1] ELSE buffer[i]
    BY <1>1, <2>1 DEF Stored
  <2>4. QED  BY <2>2, <2>3
<1>4. PICK a \in Seq(OutputBytes) : a = Filled(buffer, at) /\ Len(a) = at
                               /\ \A i \in 1 .. at : a[i] = buffer[i - 1]
  BY <1>2, FilledTyped DEF Filled
<1>5. PICK b \in Seq(OutputBytes) : b = Filled(new, at + n) /\ Len(b) = at + n
                               /\ \A i \in 1 .. at + n : b[i] = new[i - 1]
  <2>1. at + n \in Nat /\ at + n <= BufferSize
    BY <1>2
  <2>2. Filled(new, at + n) \in Seq(OutputBytes) /\ Len(Filled(new, at + n)) = at + n
    BY <2>1, FilledTyped
  <2>3. \A i \in 1 .. at + n : Filled(new, at + n)[i] = new[i - 1]
    BY DEF Filled
  <2>4. QED  BY <2>2, <2>3
<1>6. /\ a \o series \in Seq(OutputBytes) /\ Len(a \o series) = at + n
      /\ \A i \in 1 .. at + n : (a \o series)[i] = IF i <= at THEN a[i] ELSE series[i - at]
  <2>1. a \in Seq(OutputBytes) /\ series \in Seq(OutputBytes) /\ Len(a) = at /\ Len(series) = n
    BY <1>1, <1>4
  <2>2. QED  BY ONLY <2>1, ConcatProperties
<1>7. ASSUME NEW i \in 1 .. at + n
      PROVE  b[i] = (a \o series)[i]
  <2>1. i - 1 \in 0 .. BufferSize - 1
    BY <1>2
  <2>2. CASE i <= at
    <3>1. i - 1 \notin at .. at + n - 1 /\ i \in 1 .. at
      BY <2>2
    <3>2. b[i] = buffer[i - 1] /\ a[i] = buffer[i - 1]
      BY <1>3, <1>4, <1>5, <2>1, <3>1
    <3>3. QED  BY <1>6, <2>2, <3>2
  <2>3. CASE ~(i <= at)
    <3>1. i - 1 \in at .. at + n - 1 /\ (i - 1) - at + 1 = i - at
      BY <2>3
    <3>2. b[i] = series[(i - 1) - at + 1]
      BY <1>3, <1>5, <2>1, <3>1
    <3>3. QED  BY <1>6, <2>3, <3>1, <3>2
  <2>4. QED  BY <2>2, <2>3
<1>8. b = a \o series
  <2>1. PICK c \in Seq(OutputBytes) : c = a \o series
    BY <1>6
  <2>2. Len(b) = Len(c) /\ \A i \in 1 .. Len(b) : b[i] = c[i]
    BY <1>5, <1>6, <1>7, <2>1
  <2>3. b = c
    BY <2>2, SeqEqual
  <2>4. QED  BY <2>1, <2>3
<1>9. QED  BY <1>1, <1>3, <1>4, <1>5, <1>8

\* LEMMA.  There are two threads, and each has the other.
LEMMA ThreadNames ==
  /\ "loop" \in Threads /\ "task" \in Threads
  /\ \A w \in Threads : w = "loop" \/ w = "task"
  /\ Other("loop") = "task" /\ Other("task") = "loop"
<1>1. Threads = {"loop", "task"}
  BY DEF Threads
<1>2. Other("loop") = "task"
  <2>1. \E v \in Threads : v # "loop"
    BY <1>1
  <2>2. Other("loop") \in Threads /\ Other("loop") # "loop"
    BY <2>1 DEF Other
  <2>3. QED  BY <1>1, <2>2
<1>3. Other("task") = "loop"
  <2>1. \E v \in Threads : v # "task"
    BY <1>1
  <2>2. Other("task") \in Threads /\ Other("task") # "task"
    BY <2>1 DEF Other
  <2>3. QED  BY <1>1, <2>2
<1>4. QED  BY <1>1, <1>2, <1>3

\* LEMMA.  What a thread may call first, and what it has to call after it.
LEMMA FirstCall ==
  ASSUME NEW w \in Threads, NEW cs, NEW l, ThreadInv(w, cs, l), cs # <<>>
  PROVE  /\ Head(cs).op = "writeByte" => w = "loop" /\ \E b \in ScreenBytes : Head(cs).series = <<b>>
         /\ Head(cs).op = "writeBytes" =>
              w = "task" /\ Head(cs).series \in Triples /\ Head(cs).left \in {1, 2, 3}
         /\ Head(cs).op = "flushOutput" => Head(cs) = flushOutput
         /\ Head(cs).op # "flushOutput" => Tail(cs) # <<>>
         /\ Head(cs) \in CallsOf(w) /\ flushOutput \in CallsOf(w)
         /\ Tail(cs) \in Seq(CallsOf(w)) /\ EndsInFlush(Tail(cs))
         /\ <<Head(cs)>> \o Tail(cs) = cs
<1>1. cs \in Seq(CallsOf(w)) /\ EndsInFlush(cs)
  BY DEF ThreadInv
<1>2. PICK c \in CallsOf(w), rest \in Seq(CallsOf(w)) : c = Head(cs) /\ rest = Tail(cs)
  BY <1>1, RestFacts
<1>3. EndsInFlush(rest) /\ (rest = <<>> => c = flushOutput)
  BY <1>1, <1>2, RestFacts
<1>4. <<c>> \o rest = cs
  BY <1>1, <1>2
<1>5. flushOutput \in CallsOf(w) /\ flushOutput.op = "flushOutput"
  BY CallFacts DEF CallsOf
<1>6. c # flushOutput =>
        \/ w = "loop" /\ c.op = "writeByte" /\ \E b \in ScreenBytes : c.series = <<b>>
        \/ w = "task" /\ c.op = "writeBytes" /\ c.series \in Triples /\ c.left \in {1, 2, 3}
  <2>1. CASE w = "loop"
    <3>1. c \in LoopCalls
      BY <2>1 DEF CallsOf
    <3>2. QED  BY <2>1, <3>1, CallFacts
  <2>2. CASE w = "task"
    <3>1. c \in TaskCalls
      BY <2>2 DEF CallsOf
    <3>2. QED  BY <2>2, <3>1, CallFacts
  <2>3. QED  BY <2>1, <2>2, ThreadNames
<1>7. QED  BY <1>2, <1>3, <1>4, <1>5, <1>6

ThreadsInv(C, L) ==
  /\ C \in [Threads -> Seq(LoopCalls) \cup Seq(TaskCalls)]
  /\ L \in [Threads -> Nat \cup {-1}]
  /\ \A w \in Threads : ThreadInv(w, C[w], L[w])

\* LEMMA.  When one thread goes on, what there is of the other stays.
LEMMA OneThread ==
  ASSUME NEW C, NEW L, ThreadsInv(C, L), NEW w \in Threads, NEW cs, NEW l, ThreadInv(w, cs, l),
         NEW C2, NEW L2, C2 = [C EXCEPT ![w] = cs], L2 = [L EXCEPT ![w] = l] \/ (L2 = L /\ l = L[w])
  PROVE  ThreadsInv(C2, L2)
<1>1. cs \in Seq(LoopCalls) \cup Seq(TaskCalls) /\ l \in Nat \cup {-1}
  BY DEF ThreadInv, CallsOf
<1>2. C2 \in [Threads -> Seq(LoopCalls) \cup Seq(TaskCalls)] /\ L2 \in [Threads -> Nat \cup {-1}]
  BY <1>1 DEF ThreadsInv
<1>3. \A v \in Threads : C2[v] = (IF v = w THEN cs ELSE C[v]) /\ L2[v] = (IF v = w THEN l ELSE L[v])
  BY DEF ThreadsInv
<1>4. QED  BY <1>2, <1>3 DEF ThreadsInv

\* LEMMA.  The calls that may be put before the others, by a thread that goes on.
LEMMA GoesOn ==
  ASSUME NEW w \in Threads, NEW cs, NEW l, ThreadInv(w, cs, l), cs # <<>>,
         NEW k \in Nat \cup {-1}
  PROVE  /\ k = -1 \/ Head(cs).op # "writeBytes" => ThreadInv(w, <<Head(cs)>> \o Tail(cs), k)
         /\ ThreadInv(w, <<>> \o Tail(cs), -1)
         /\ ThreadInv(w, <<flushOutput>> \o Tail(cs), -1)
         /\ Head(cs) = flushOutput => ThreadInv(w, <<flushOutput>> \o Tail(cs), k)
         /\ \A c \in CallsOf(w) : Tail(cs) # <<>> => ThreadInv(w, <<flushOutput, c>> \o Tail(cs), -1)
<1>1. PICK c \in CallsOf(w), rest \in Seq(CallsOf(w)), f \in CallsOf(w) :
        c = Head(cs) /\ rest = Tail(cs) /\ f = flushOutput /\ EndsInFlush(rest)
        /\ <<c>> \o rest = cs
  BY FirstCall
<1>2. EndsInFlush(cs)
  BY DEF ThreadInv
<1>3. k = -1 \/ c.op # "writeBytes" => ThreadInv(w, <<c>> \o rest, k)
  BY <1>1 DEF ThreadInv
<1>4. ThreadInv(w, <<>> \o rest, -1)
  <2>1. <<>> \o rest = rest
    BY <1>1
  <2>2. QED  BY <1>1, <2>1 DEF ThreadInv
<1>5. <<f>> \o rest \in Seq(CallsOf(w)) /\ <<f>> \o rest # <<>> /\ Head(<<f>> \o rest) = f
      /\ EndsInFlush(<<f>> \o rest)
  <2>1. f \in CallsOf(w) /\ rest \in Seq(CallsOf(w)) /\ EndsInFlush(rest) /\ f = flushOutput
    BY <1>1
  <2>2. QED  BY ONLY <2>1, OneMore
<1>6. f.op # "writeBytes"
  BY <1>1, CallFacts
<1>7. ThreadInv(w, <<f>> \o rest, -1) /\ ThreadInv(w, <<f>> \o rest, k)
  BY <1>5, <1>6 DEF ThreadInv
<1>8. ASSUME NEW d \in CallsOf(w), rest # <<>>
      PROVE  ThreadInv(w, <<f, d>> \o rest, -1)
  <2>1. PICK next \in Seq(CallsOf(w)) : next = <<d>> \o rest /\ EndsInFlush(next)
    <3>1. rest \in Seq(CallsOf(w)) /\ EndsInFlush(rest) /\ d \in CallsOf(w) /\ rest # <<>>
      BY <1>1, <1>8
    <3>2. <<d>> \o rest \in Seq(CallsOf(w)) /\ EndsInFlush(<<d>> \o rest)
      BY ONLY <3>1, OneMore
    <3>3. QED  BY ONLY <3>2
  <2>2. <<f>> \o next \in Seq(CallsOf(w)) /\ EndsInFlush(<<f>> \o next)
    <3>1. f \in CallsOf(w) /\ f = flushOutput /\ next \in Seq(CallsOf(w)) /\ EndsInFlush(next)
      BY <1>1, <2>1
    <3>2. QED  BY ONLY <3>1, OneMore
  <2>3. <<f, d>> \o rest = <<f>> \o next
    <3>1. <<f, d>> = <<f>> \o <<d>>
      OBVIOUS
    <3>2. <<f>> \in Seq(CallsOf(w)) /\ <<d>> \in Seq(CallsOf(w))
      BY <1>1
    <3>3. (<<f>> \o <<d>>) \o rest = <<f>> \o (<<d>> \o rest)
      <4>1. ListsOf(CallsOf(w), <<f>>, <<d>>, rest)
        BY <3>2 DEF ListsOf
      <4>2. QED  BY ONLY <4>1, Regroup
    <3>4. QED  BY <2>1, <3>1, <3>3
  <2>4. QED  BY <2>2, <2>3 DEF ThreadInv
<1>9. QED  BY <1>1, <1>3, <1>4, <1>7, <1>8

\* LEMMA.  At first everything is typed.
LEMMA TypesInit == ConnectionInit => ConnectionTypes
<1> SUFFICES ASSUME ConnectionInit PROVE ConnectionTypes
  OBVIOUS
<1>1. input \in Inputs /\ pos \in Positions(input)
  <2>1. input \in Seq(Bytes) /\ pos = 1 /\ input \in Inputs
    BY InputsAssumption DEF ConnectionInit, KeyInit
  <2>2. QED  BY <2>1 DEF Positions, End
<1>2. output_buffer \in [0 .. BufferSize - 1 -> OutputBytes] /\ buffer_cursor = 0
  BY OtherBytesFacts DEF ConnectionInit, OutputBytes
<1>3. wire \in Seq(OutputBytes) /\ begun \in Seq(ScreenBytes) /\ screens \in Seq(Seq(ScreenBytes))
  BY ScreensTyped DEF ConnectionInit
<1>4. \A w \in Threads : ThreadInv(w, <<>>, -1)
  BY DEF ThreadInv, EndsInFlush
<1>5. calls = [w \in Threads |-> <<>>] /\ loaded = [w \in Threads |-> -1]
  BY DEF ConnectionInit
<1>6. QED  BY <1>1, <1>2, <1>3, <1>4, <1>5, BufferSizeAssumption DEF ConnectionTypes

\* LEMMA.  What is typed has the threads in order.
LEMMA TypesOfThreads == ConnectionTypes => ThreadsInv(calls, loaded)
BY DEF ConnectionTypes, ThreadsInv

\* LEMMA.  What sendMenu begins.
LEMMA SendMenuFacts ==
  ASSUME ConnectionTypes, sendMenu
  PROVE  /\ \E screen \in Seq(ScreenBytes), work \in Seq(LoopCalls) :
              /\ work # <<>> /\ EndsInFlush(work) /\ ShownBy(work) = screen
              /\ calls["loop"] = <<>> /\ calls' = [calls EXCEPT !["loop"] = work]
              /\ begun' = begun \o screen
         /\ screens' \in Seq(Seq(ScreenBytes))
         /\ mixed' = (calls["task"] # <<>>)
         /\ UNCHANGED <<keyVars, outputVars, expected, crossed, failed, outside>>
<1>1. screens \in Seq(Seq(ScreenBytes)) /\ screens # <<>> /\ screens' = Tail(screens)
  BY DEF ConnectionTypes, sendMenu
<1>2. PICK screen \in Seq(ScreenBytes) : screen = Head(screens)
  BY <1>1
<1>3. PICK work : work = [i \in DOMAIN screen |-> writeByte(screen[i])] \o <<flushOutput>>
  OBVIOUS
<1>4. work \in Seq(LoopCalls) /\ work # <<>> /\ EndsInFlush(work) /\ ShownBy(work) = screen
  BY <1>3, ScreenWork
<1>5. Begins("loop", work) /\ begun' = begun \o screen
  BY <1>2, <1>3 DEF sendMenu
<1>6. calls["loop"] = <<>> /\ calls' = [calls EXCEPT !["loop"] = work]
      /\ mixed' = (calls["task"] # <<>>) /\ UNCHANGED <<outputVars, crossed, failed, outside>>
  BY <1>5, ThreadNames DEF Begins
<1>7. UNCHANGED <<keyVars, expected>>
  BY DEF sendMenu
<1>8. screens' \in Seq(Seq(ScreenBytes))
  BY <1>1
<1>9. QED  BY <1>4, <1>5, <1>6, <1>7, <1>8

\* LEMMA.  What readKey begins.
LEMMA ReadKeyFacts ==
  ASSUME ConnectionTypes, readKey
  PROVE  /\ \E work \in AnswerCalls :
              /\ calls["task"] = <<>> /\ calls' = [calls EXCEPT !["task"] = work]
              /\ expected' = wire \o Series(work)
         /\ pos' \in Positions(input)
         /\ mixed' = (calls["loop"] # <<>>)
         /\ UNCHANGED <<input, outputVars, screens, begun, crossed, failed, outside>>
<1>1. input \in Inputs /\ input \in Seq(Bytes) /\ pos \in Positions(input)
  BY InputsAssumption DEF ConnectionTypes
<1>2. PICK key : key = nextKey(input, pos)
  OBVIOUS
<1>3. key.commands \in Seq(CommandsOf(input)) /\ key.next \in Positions(input)
  <2>1. KeyFrom(input, pos) \in [Places -> KeysRead(input)]
    BY <1>1, KeyFromFacts
  <2>2. key \in KeysRead(input)
    BY <1>2, <2>1 DEF nextKey, Places
  <2>3. QED  BY <2>2 DEF KeysRead
<1>4. PICK new : new = key.commands
  OBVIOUS
<1>5. PICK answers : answers = [i \in DOMAIN new |-> response(new[i])]
  OBVIOUS
<1>6. PICK work : work = FlattenSeq([i \in DOMAIN answers |-> sendCommands(answers[i])])
  OBVIOUS
<1>7. PICK all : all = FlattenSeq(answers)
  OBVIOUS
<1>0. PICK series : series = FlattenSeq([i \in DOMAIN all |-> commandBytes(all[i])])
  OBVIOUS
<1>8. work \in AnswerCalls /\ Series(work) = series
  <2>1. Answers(input, new, answers, work, all, series)
    BY <1>0, <1>1, <1>3, <1>4, <1>5, <1>6, <1>7 DEF Answers
  <2>2. QED  BY <2>1, AnswerWork
<1>9. Begins("task", work) /\ expected' = wire \o series
  BY <1>0, <1>2, <1>4, <1>5, <1>6, <1>7 DEF readKey
<1>10. pos' = key.next /\ UNCHANGED <<input, screens, begun>>
  BY <1>2 DEF readKey, handleKey
<1>11. QED  BY <1>3, <1>8, <1>9, <1>10, ThreadNames DEF Begins

\* LEMMA.  A step of a call that w is making.
LEMMA GoesFacts ==
  ASSUME ConnectionTypes, NEW w \in Threads, NEW op, NEW on, Goes(w, op, on)
  PROVE  /\ calls[w] # <<>> /\ Head(calls[w]).op = op
         /\ calls' = [calls EXCEPT ![w] = on \o Tail(calls[w])]
         /\ ThreadInv(w, calls[w], loaded[w]) /\ loaded[w] \in Nat \cup {-1}
         /\ UNCHANGED <<screens, begun, expected, mixed>>
         /\ crossed' = (crossed \/ loaded[Other(w)] # -1)
BY DEF ConnectionTypes, Goes, ThreadInv, workVars

\* LEMMA.  What is typed stays so, whatever a thread does with the stream.
LEMMA TypesWrites ==
  ASSUME ConnectionTypes, ~outside, NEW w \in Threads, Writes(w)
  PROVE  ConnectionTypes'
<1>1. ThreadsInv(calls, loaded) /\ ThreadInv(w, calls[w], loaded[w])
  BY TypesOfThreads DEF ConnectionTypes
<1>2. /\ buffer_cursor \in Nat /\ buffer_cursor <= BufferSize /\ BufferSize \in Nat
      /\ output_buffer \in [0 .. BufferSize - 1 -> OutputBytes] /\ wire \in Seq(OutputBytes)
      /\ input \in Inputs /\ pos \in Positions(input) /\ begun \in Seq(ScreenBytes)
      /\ screens \in Seq(Seq(ScreenBytes))
  BY BufferSizeAssumption DEF ConnectionTypes
<1>3. ASSUME NEW cs, NEW l, ThreadInv(w, cs, l), calls' = [calls EXCEPT ![w] = cs],
             loaded' = [loaded EXCEPT ![w] = l] \/ (loaded' = loaded /\ l = loaded[w]),
             output_buffer' \in [0 .. BufferSize - 1 -> OutputBytes],
             buffer_cursor' \in Nat, ~outside' => buffer_cursor' <= BufferSize,
             wire' \in Seq(OutputBytes), UNCHANGED <<input, pos, screens, begun>>
      PROVE  ConnectionTypes'
  <2>1. ThreadsInv(calls', loaded')
    BY <1>1, <1>3, OneThread
  <2>2. QED  BY <1>2, <1>3, <2>1 DEF ConnectionTypes, ThreadsInv, Positions, End
<1>4. CASE readCursor(w)
  <2>1. Goes(w, "writeByte", <<Head(calls[w])>>) /\ loaded' = [loaded EXCEPT ![w] = buffer_cursor]
        /\ UNCHANGED <<input, pos, output_buffer, buffer_cursor, wire, outside>>
    BY <1>4 DEF readCursor, keyVars
  <2>2. calls[w] # <<>> /\ Head(calls[w]).op = "writeByte"
        /\ calls' = [calls EXCEPT ![w] = <<Head(calls[w])>> \o Tail(calls[w])]
        /\ UNCHANGED <<screens, begun>>
    BY <2>1, GoesFacts
  <2>3. ThreadInv(w, <<Head(calls[w])>> \o Tail(calls[w]), buffer_cursor)
    BY <1>1, <1>2, <2>2, GoesOn
  <2>4. QED  BY <1>2, <1>3, <2>1, <2>2, <2>3
<1>5. CASE storeByte(w)
  <2>1. /\ Goes(w, "writeByte", IfFull(loaded[w] + 1)) /\ loaded' = [loaded EXCEPT ![w] = -1]
        /\ loaded[w] # -1 /\ Store(Head(calls[w]).series, loaded[w])
        /\ buffer_cursor' = loaded[w] + 1 /\ UNCHANGED <<input, pos, wire>>
    BY <1>5 DEF storeByte, keyVars
  <2>2. calls[w] # <<>> /\ Head(calls[w]).op = "writeByte" /\ loaded[w] \in Nat
        /\ calls' = [calls EXCEPT ![w] = IfFull(loaded[w] + 1) \o Tail(calls[w])]
        /\ UNCHANGED <<screens, begun>>
    BY <2>1, GoesFacts
  <2>3. ThreadInv(w, IfFull(loaded[w] + 1) \o Tail(calls[w]), -1)
    BY <1>1, <2>2, GoesOn DEF IfFull
  <2>4. PICK b \in ScreenBytes : Head(calls[w]).series = <<b>>
    BY <1>1, <2>2, FirstCall
  <2>5. <<b>> \in Seq(OutputBytes) /\ Len(<<b>>) = 1
    BY DEF OutputBytes
  <2>6. output_buffer' = Stored(output_buffer, <<b>>, loaded[w])
        /\ (outside' <=> loaded[w] + 1 > BufferSize)
    BY <2>1, <2>4, <2>5 DEF Store, Stored
  <2>7. output_buffer' \in [0 .. BufferSize - 1 -> OutputBytes]
    BY <1>2, <2>2, <2>5, <2>6, StoredTyped
  <2>8. buffer_cursor' \in Nat /\ (~outside' => buffer_cursor' <= BufferSize)
    BY <1>2, <2>1, <2>2, <2>6
  <2>9. QED  BY <1>2, <1>3, <2>1, <2>2, <2>3, <2>7, <2>8
<1>6. CASE fillBuffer(w)
  <2> DEFINE call == Head(calls[w])
             left == [call EXCEPT !.left = @ - Room]
  <2>1. /\ Goes(w, "writeBytes", <<flushOutput, left>>)
        /\ call.left > Room /\ Store(SubSeq(call.series, 1, Room), buffer_cursor)
        /\ buffer_cursor' = BufferSize /\ UNCHANGED <<input, pos, wire, loaded>>
    BY <1>6 DEF fillBuffer, keyVars
  <2>2. calls[w] # <<>> /\ call.op = "writeBytes"
        /\ calls' = [calls EXCEPT ![w] = <<flushOutput, left>> \o Tail(calls[w])]
        /\ UNCHANGED <<screens, begun>>
    BY <2>1, GoesFacts
  <2>3. /\ w = "task" /\ call.series \in Triples /\ call.left \in {1, 2, 3}
        /\ call \in CallsOf(w) /\ Tail(calls[w]) # <<>>
    BY <1>1, <2>2, FirstCall
  <2>4. loaded[w] = -1
    BY <1>1, <2>2 DEF ThreadInv
  <2>5. Room \in 0 .. 2 /\ call.left - Room \in {1, 2, 3} /\ buffer_cursor + Room <= BufferSize
    <3>1. Room \in Nat /\ buffer_cursor + Room <= BufferSize
      BY <1>2 DEF Room
    <3>2. PICK n \in {1, 2, 3} : n = call.left
      BY <2>3
    <3>3. Room < n
      BY <2>1, <3>1, <3>2
    <3>4. QED  BY <3>1, <3>2, <3>3
  <2>6. left \in CallsOf(w)
    <3>1. call \in [op : {"writeBytes"}, series : Triples, left : {1, 2, 3}]
      BY <2>2, <2>3, CallFacts, ThreadNames DEF CallsOf, TaskCalls
    <3>2. left \in [op : {"writeBytes"}, series : Triples, left : {1, 2, 3}]
      BY <2>5, <3>1
    <3>3. QED  BY <2>3, <3>2 DEF CallsOf, TaskCalls
  <2> HIDE DEF left
  <2>7. ThreadInv(w, <<flushOutput, left>> \o Tail(calls[w]), -1)
    BY <1>1, <2>2, <2>3, <2>6, GoesOn
  <2>8. PICK series \in Seq(OutputBytes) : series = SubSeq(call.series, 1, Room) /\ Len(series) = Room
    <3>1. call.series \in Seq(OutputBytes) /\ Len(call.series) = 3
      BY <2>3, SeqMonotonic DEF Triples, OutputBytes
    <3>2. \A s \in Seq(OutputBytes), n \in 0 .. 2 :
            Len(s) = 3 => SubSeq(s, 1, n) \in Seq(OutputBytes) /\ Len(SubSeq(s, 1, n)) = n
      <4> SUFFICES ASSUME NEW s \in Seq(OutputBytes), NEW n \in 0 .. 2, Len(s) = 3
                   PROVE  SubSeq(s, 1, n) \in Seq(OutputBytes) /\ Len(SubSeq(s, 1, n)) = n
        OBVIOUS
      <4>1. \A i \in 1 .. n : s[i] \in OutputBytes
        <5>1. \A i \in 1 .. n : i \in 1 .. Len(s)
          BY ONLY n \in 0 .. 2, Len(s) = 3
        <5>2. QED  BY ONLY s \in Seq(OutputBytes), <5>1, ElementOfSeq
      <4>2. n \in Int /\ (IF 1 <= n THEN n - 1 + 1 ELSE 0) = n
        OBVIOUS
      <4>3. QED  BY ONLY <4>1, <4>2, SubSeqProperties
    <3>3. QED  BY <2>5, <3>1, <3>2
  <2>9. output_buffer' = Stored(output_buffer, series, buffer_cursor)
    BY <2>1, <2>8 DEF Store, Stored
  <2>10. output_buffer' \in [0 .. BufferSize - 1 -> OutputBytes]
    BY <1>2, <2>8, <2>9, StoredTyped
  <2>11. buffer_cursor' \in Nat /\ buffer_cursor' <= BufferSize
    BY <1>2, <2>1
  <2>12. QED  BY <1>2, <1>3, <2>1, <2>2, <2>4, <2>7, <2>10, <2>11
<1>7. CASE copySeries(w)
  <2> DEFINE call == Head(calls[w])
  <2>1. /\ Goes(w, "writeBytes", <<>>)
        /\ Store(call.series, buffer_cursor)
        /\ buffer_cursor' = buffer_cursor + Len(call.series)
        /\ UNCHANGED <<input, pos, wire, loaded>>
    BY <1>7 DEF copySeries, keyVars
  <2>2. calls[w] # <<>> /\ call.op = "writeBytes"
        /\ calls' = [calls EXCEPT ![w] = <<>> \o Tail(calls[w])]
        /\ UNCHANGED <<screens, begun>>
    BY <2>1, GoesFacts
  <2>3. call.series \in Triples
    BY <1>1, <2>2, FirstCall
  <2>4. loaded[w] = -1
    BY <1>1, <2>2 DEF ThreadInv
  <2>5. ThreadInv(w, <<>> \o Tail(calls[w]), -1)
    BY <1>1, <2>2, GoesOn
  <2>6. call.series \in Seq(OutputBytes) /\ Len(call.series) = 3
    BY <2>3, SeqMonotonic DEF Triples, OutputBytes
  <2>7. output_buffer' = Stored(output_buffer, call.series, buffer_cursor)
        /\ (outside' <=> buffer_cursor + 3 > BufferSize)
    BY <2>1, <2>6 DEF Store, Stored
  <2>8. output_buffer' \in [0 .. BufferSize - 1 -> OutputBytes]
    BY <1>2, <2>6, <2>7, StoredTyped
  <2>9. buffer_cursor' \in Nat /\ (~outside' => buffer_cursor' <= BufferSize)
    <3>1. buffer_cursor' = buffer_cursor + 3
      BY <2>1, <2>6
    <3>2. QED  BY ONLY <1>2, <2>7, <3>1
  <2>10. QED  BY <1>2, <1>3, <2>1, <2>2, <2>4, <2>5, <2>8, <2>9
<1>8. CASE write(w)
  <2>1. /\ Goes(w, "flushOutput", <<flushOutput>>) /\ loaded' = [loaded EXCEPT ![w] = buffer_cursor]
        /\ wire' = wire \o Filled(output_buffer, buffer_cursor)
        /\ UNCHANGED <<input, pos, output_buffer, buffer_cursor, outside>>
    BY <1>8 DEF write, keyVars, Filled
  <2>2. calls[w] # <<>> /\ Head(calls[w]).op = "flushOutput"
        /\ calls' = [calls EXCEPT ![w] = <<flushOutput>> \o Tail(calls[w])]
        /\ UNCHANGED <<screens, begun>>
    BY <2>1, GoesFacts
  <2>3. Head(calls[w]) = flushOutput
    BY <1>1, <2>2, FirstCall
  <2>4. ThreadInv(w, <<flushOutput>> \o Tail(calls[w]), buffer_cursor)
    BY <1>1, <1>2, <2>2, <2>3, GoesOn
  <2>5. wire' \in Seq(OutputBytes)
    <3>1. Filled(output_buffer, buffer_cursor) \in Seq(OutputBytes)
      BY <1>2, FilledTyped
    <3>2. QED  BY <1>2, <2>1, <3>1
  <2>6. QED  BY <1>2, <1>3, <2>1, <2>2, <2>4, <2>5
<1>9. CASE flushed(w)
  <2>1. /\ Goes(w, "flushOutput", <<>>) /\ loaded' = [loaded EXCEPT ![w] = -1] /\ buffer_cursor' = 0
        /\ UNCHANGED <<input, pos, output_buffer, wire, outside>>
    BY <1>9 DEF flushed, keyVars
  <2>2. calls[w] # <<>> /\ calls' = [calls EXCEPT ![w] = <<>> \o Tail(calls[w])]
        /\ UNCHANGED <<screens, begun>>
    BY <2>1, GoesFacts
  <2>3. ThreadInv(w, <<>> \o Tail(calls[w]), -1)
    BY <1>1, <2>2, GoesOn
  <2>4. buffer_cursor' \in Nat /\ buffer_cursor' <= BufferSize
    BY <1>2, <2>1
  <2>5. QED  BY <1>2, <1>3, <2>1, <2>2, <2>3, <2>4
<1>10. CASE writeFails(w) \/ cursorMoved(w)
  <2>1. Throws(w)
    BY <1>10 DEF writeFails, cursorMoved
  <2>2. /\ calls' = [calls EXCEPT ![w] = <<>>] /\ loaded' = [loaded EXCEPT ![w] = -1]
        /\ UNCHANGED <<input, pos, output_buffer, buffer_cursor, screens, begun, outside>>
    BY <2>1 DEF Throws, workVars
  <2>3. ThreadInv(w, <<>>, -1)
    BY DEF ThreadInv, EndsInFlush
  <2>4. wire' \in Seq(OutputBytes)
    <3>1. CASE cursorMoved(w)
      BY <1>2, <3>1 DEF cursorMoved
    <3>2. CASE writeFails(w)
      <4>1. PICK count \in 0 .. buffer_cursor - 1 : wire' = wire \o Filled(output_buffer, count)
        BY <3>2 DEF writeFails, Filled
      <4>2. count \in Nat /\ count <= BufferSize
        BY <1>2
      <4>3. Filled(output_buffer, count) \in Seq(OutputBytes)
        BY <1>2, <4>2, FilledTyped
      <4>4. QED  BY <1>2, <4>1, <4>3
    <3>3. QED  BY <1>10, <3>1, <3>2
  <2>5. QED  BY <1>2, <1>3, <2>2, <2>3, <2>4
<1>11. QED  BY <1>4, <1>5, <1>6, <1>7, <1>8, <1>9, <1>10 DEF Writes

\* LEMMA.  Everything stays typed, whatever is done next.
LEMMA TypesStep ==
  ASSUME ConnectionTypes, [ConnectionNext]_connectionVars
  PROVE  ConnectionTypes'
<1>1. ThreadsInv(calls, loaded)
  BY TypesOfThreads
<1>2. /\ buffer_cursor \in Nat /\ (~outside => buffer_cursor <= BufferSize)
      /\ output_buffer \in [0 .. BufferSize - 1 -> OutputBytes] /\ wire \in Seq(OutputBytes)
      /\ input \in Inputs /\ pos \in Positions(input) /\ begun \in Seq(ScreenBytes)
      /\ screens \in Seq(Seq(ScreenBytes))
  BY DEF ConnectionTypes
<1>3. CASE sendMenu
  <2>1. PICK screen \in Seq(ScreenBytes), work \in Seq(LoopCalls) :
              /\ work # <<>> /\ EndsInFlush(work) /\ ShownBy(work) = screen
              /\ calls["loop"] = <<>> /\ calls' = [calls EXCEPT !["loop"] = work]
              /\ begun' = begun \o screen
    BY <1>3, SendMenuFacts
  <2>2. /\ screens' \in Seq(Seq(ScreenBytes))
        /\ UNCHANGED <<input, pos, outputVars, outside>>
    BY <1>3, SendMenuFacts DEF keyVars
  <2>3. loaded["loop"] = -1
    BY <1>1, <2>1, ThreadNames DEF ThreadsInv, ThreadInv
  <2>4. ThreadInv("loop", work, -1)
    BY <2>1 DEF ThreadInv, CallsOf
  <2>5. loaded' = loaded
    BY <2>2 DEF outputVars
  <2>6. ThreadsInv(calls', loaded')
    BY <1>1, <2>1, <2>3, <2>4, <2>5, ThreadNames, OneThread
  <2>7. begun' \in Seq(ScreenBytes)
    BY <1>2, <2>1
  <2>8. QED  BY <1>2, <2>2, <2>6, <2>7 DEF ConnectionTypes, ThreadsInv, outputVars, Positions, End
<1>4. CASE readKey
  <2>1. PICK work \in AnswerCalls :
              /\ calls["task"] = <<>> /\ calls' = [calls EXCEPT !["task"] = work]
              /\ expected' = wire \o Series(work)
    BY <1>4, ReadKeyFacts
  <2>2. /\ pos' \in Positions(input)
        /\ UNCHANGED <<input, outputVars, screens, begun, outside>>
    BY <1>4, ReadKeyFacts
  <2>3. loaded["task"] = -1
    BY <1>1, <2>1, ThreadNames DEF ThreadsInv, ThreadInv
  <2>4. ThreadInv("task", work, -1)
    BY DEF ThreadInv, CallsOf, AnswerCalls
  <2>5. loaded' = loaded
    BY <2>2 DEF outputVars
  <2>6. ThreadsInv(calls', loaded')
    BY <1>1, <2>1, <2>3, <2>4, <2>5, ThreadNames, OneThread
  <2>7. QED  BY <1>2, <2>2, <2>6 DEF ConnectionTypes, ThreadsInv, outputVars, Positions, End
<1>5. CASE ~outside /\ \E w \in Threads : Writes(w)
  BY <1>5, TypesWrites
<1>6. CASE UNCHANGED connectionVars
  BY <1>6 DEF connectionVars, keyVars, outputVars, workVars, ConnectionTypes, Positions, End
<1>7. QED  BY <1>3, <1>4, <1>5, <1>6 DEF ConnectionNext

-------------------------------------------------------------------------------
(* Within the buffer                                                       *)

\* While a thread is alone with the stream, it meets an empty buffer or one that
\* its own calls have filled.
LoopAlone(cs, cursor, l) ==
  cs # <<>> /\ Head(cs).op = "writeByte" => cursor < BufferSize /\ l \in {-1, cursor}

TaskAlone(cs, cursor) ==
  /\ Answering(cs)
  /\ cs # <<>> /\ Head(cs).op = "writeBytes" => cursor = 0

AloneInv ==
  /\ ~failed /\ ~outside /\ calls["loop"] = <<>> /\ calls["task"] = <<>> => buffer_cursor = 0
  /\ ~failed /\ ~mixed =>
       /\ ~outside
       /\ calls["loop"] = <<>> \/ calls["task"] = <<>>
       /\ LoopAlone(calls["loop"], buffer_cursor, loaded["loop"])
       /\ TaskAlone(calls["task"], buffer_cursor)

\* LEMMA.  Who goes on with what, and that the other thread does not.
LEMMA WriterFacts ==
  ASSUME ConnectionTypes, NEW w \in Threads, Writes(w)
  PROVE  \/ failed'
         \/ /\ w = "loop" \/ w = "task"
            /\ \A v \in Threads : v # w => calls'[v] = calls[v] /\ loaded'[v] = loaded[v]
            /\ calls[w] # <<>> /\ (failed' <=> failed)
            /\ UNCHANGED <<screens, begun, expected, mixed>>
            /\ crossed' = (crossed \/ loaded[Other(w)] # -1)
            /\ \/ readCursor(w) /\ w = "loop" /\ Head(calls[w]).op = "writeByte"
                  /\ calls'[w] = calls[w] /\ loaded'[w] = buffer_cursor
                  /\ loaded[w] = -1
               \/ storeByte(w) /\ w = "loop" /\ Head(calls[w]).op = "writeByte"
                  /\ Tail(calls[w]) # <<>> /\ loaded'[w] = -1
                  /\ calls'[w] = IfFull(loaded[w] + 1) \o Tail(calls[w])
               \/ fillBuffer(w) /\ w = "task" /\ Head(calls[w]).op = "writeBytes"
                  /\ Tail(calls[w]) # <<>> /\ loaded'[w] = loaded[w]
                  /\ calls'[w] = <<flushOutput, [Head(calls[w]) EXCEPT !.left = @ - Room]>>
                                   \o Tail(calls[w])
               \/ copySeries(w) /\ w = "task" /\ Head(calls[w]).op = "writeBytes"
                  /\ Tail(calls[w]) # <<>> /\ loaded'[w] = loaded[w]
                  /\ calls'[w] = Tail(calls[w])
               \/ write(w) /\ Head(calls[w]) = flushOutput /\ Head(calls[w]).op = "flushOutput"
                  /\ calls'[w] = calls[w] /\ loaded'[w] = buffer_cursor
                  /\ loaded[w] = -1
               \/ flushed(w) /\ Head(calls[w]) = flushOutput /\ Head(calls[w]).op = "flushOutput"
                  /\ calls'[w] = Tail(calls[w]) /\ loaded'[w] = -1
<1>1. /\ calls \in [Threads -> Seq(LoopCalls) \cup Seq(TaskCalls)]
      /\ loaded \in [Threads -> Nat \cup {-1}] /\ ThreadInv(w, calls[w], loaded[w])
  BY DEF ConnectionTypes
<1>2. w = "loop" \/ w = "task"
  BY ThreadNames
<1>3. CASE writeFails(w) \/ cursorMoved(w)
  BY <1>3 DEF writeFails, cursorMoved, Throws
<1>4. ASSUME NEW op, NEW on, Goes(w, op, on)
      PROVE  /\ \A v \in Threads : v # w => calls'[v] = calls[v]
             /\ calls[w] # <<>> /\ Head(calls[w]).op = op
             /\ calls'[w] = on \o Tail(calls[w])
             /\ UNCHANGED <<screens, begun, expected, mixed>>
             /\ crossed' = (crossed \/ loaded[Other(w)] # -1)
  <2>1. calls' = [calls EXCEPT ![w] = on \o Tail(calls[w])]
    BY <1>4, GoesFacts
  <2>2. QED  BY <1>1, <1>4, <2>1, GoesFacts
<1>5. ASSUME NEW l, loaded' = [loaded EXCEPT ![w] = l]
      PROVE  loaded'[w] = l /\ \A v \in Threads : v # w => loaded'[v] = loaded[v]
  BY <1>1, <1>5
<1>6. ASSUME calls[w] # <<>>
      PROVE  <<Head(calls[w])>> \o Tail(calls[w]) = calls[w] /\ <<>> \o Tail(calls[w]) = Tail(calls[w])
  <2>1. Tail(calls[w]) \in Seq(CallsOf(w)) /\ <<Head(calls[w])>> \o Tail(calls[w]) = calls[w]
    BY <1>1, <1>6, FirstCall
  <2>2. QED  BY <2>1
<1>7. CASE readCursor(w)
  <2>1. Goes(w, "writeByte", <<Head(calls[w])>>) /\ loaded' = [loaded EXCEPT ![w] = buffer_cursor]
        /\ loaded[w] = -1 /\ failed' = failed
    BY <1>7 DEF readCursor
  <2>2. w = "loop"
    BY <1>1, <1>4, <2>1, FirstCall
  <2>3. calls[w] # <<>> /\ Head(calls[w]).op = "writeByte" /\ calls'[w] = calls[w]
        /\ loaded'[w] = buffer_cursor
    <3>1. calls'[w] = <<Head(calls[w])>> \o Tail(calls[w]) /\ calls[w] # <<>>
          /\ Head(calls[w]).op = "writeByte"
      BY <1>4, <2>1
    <3>2. QED  BY <1>5, <1>6, <2>1, <3>1
  <2>4. QED  BY <1>2, <1>4, <1>5, <1>7, <2>1, <2>2, <2>3
<1>8. CASE storeByte(w)
  <2>1. Goes(w, "writeByte", IfFull(loaded[w] + 1)) /\ loaded' = [loaded EXCEPT ![w] = -1]
        /\ failed' = failed
    BY <1>8 DEF storeByte
  <2>2. w = "loop" /\ Tail(calls[w]) # <<>>
    <3>1. calls[w] # <<>> /\ Head(calls[w]).op = "writeByte"
      BY <1>4, <2>1
    <3>2. QED  BY <1>1, <3>1, FirstCall
  <2>3. QED  BY <1>2, <1>4, <1>5, <1>8, <2>1, <2>2
<1>9. CASE fillBuffer(w)
  <2>1. Goes(w, "writeBytes", <<flushOutput, [Head(calls[w]) EXCEPT !.left = @ - Room]>>)
        /\ loaded' = loaded /\ failed' = failed
    BY <1>9 DEF fillBuffer
  <2>2. w = "task" /\ Tail(calls[w]) # <<>>
    BY <1>1, <1>4, <2>1, FirstCall
  <2>3. QED  BY <1>2, <1>4, <1>9, <2>1, <2>2
<1>10. CASE copySeries(w)
  <2>1. Goes(w, "writeBytes", <<>>) /\ loaded' = loaded /\ failed' = failed
    BY <1>10 DEF copySeries
  <2>2. w = "task" /\ Tail(calls[w]) # <<>>
    BY <1>1, <1>4, <2>1, FirstCall
  <2>3. QED  BY <1>2, <1>4, <1>6, <1>10, <2>1, <2>2
<1>11. CASE write(w)
  <2>1. Goes(w, "flushOutput", <<flushOutput>>) /\ loaded' = [loaded EXCEPT ![w] = buffer_cursor]
        /\ loaded[w] = -1 /\ failed' = failed
    BY <1>11 DEF write
  <2>2. Head(calls[w]) = flushOutput
    BY <1>1, <1>4, <2>1, FirstCall
  <2>3. QED  BY <1>2, <1>4, <1>5, <1>6, <1>11, <2>1, <2>2
<1>12. CASE flushed(w)
  <2>1. Goes(w, "flushOutput", <<>>) /\ loaded' = [loaded EXCEPT ![w] = -1] /\ failed' = failed
    BY <1>12 DEF flushed
  <2>2. Head(calls[w]) = flushOutput
    BY <1>1, <1>4, <2>1, FirstCall
  <2>3. QED  BY <1>2, <1>4, <1>5, <1>6, <1>12, <2>1, <2>2
<1>13. QED  BY <1>3, <1>7, <1>8, <1>9, <1>10, <1>11, <1>12 DEF Writes

\* LEMMA.  At first the buffer is empty.
LEMMA AloneInit == ConnectionInit => AloneInv
<1> SUFFICES ASSUME ConnectionInit PROVE AloneInv
  OBVIOUS
<1>1. calls["loop"] = <<>> /\ calls["task"] = <<>> /\ buffer_cursor = 0 /\ ~outside
  BY ThreadNames DEF ConnectionInit
<1>2. Answering(<<>>)
  BY DEF Answering
<1>3. QED  BY <1>1, <1>2 DEF AloneInv, LoopAlone, TaskAlone

\* LEMMA.  A thread alone with the stream leaves the cursor within the buffer, at its
\* beginning when it is done.
LEMMA AloneWrites ==
  ASSUME ConnectionTypes, AloneInv, ~outside, NEW w \in Threads, Writes(w)
  PROVE  AloneInv'
<1>1. ThreadInv("loop", calls["loop"], loaded["loop"]) /\ ThreadInv("task", calls["task"], loaded["task"])
  BY ThreadNames DEF ConnectionTypes
<1>2. buffer_cursor \in Nat /\ BufferSize \in Nat /\ BufferSize >= 3 /\ buffer_cursor <= BufferSize
  BY BufferSizeAssumption DEF ConnectionTypes
<1>3. CASE failed'
  BY <1>3 DEF AloneInv
<1>4. ASSUME ~failed
      PROVE  /\ calls["loop"] = <<>> /\ calls["task"] = <<>> => buffer_cursor = 0
             /\ ~mixed => /\ calls["loop"] = <<>> \/ calls["task"] = <<>>
                          /\ LoopAlone(calls["loop"], buffer_cursor, loaded["loop"])
                          /\ TaskAlone(calls["task"], buffer_cursor)
  BY <1>4 DEF AloneInv
<1>5. Answering(<<>>)
  BY DEF Answering
<1>6. CASE /\ w = "loop" /\ (failed' <=> failed) /\ ~failed /\ calls["loop"] # <<>>
           /\ calls'["task"] = calls["task"] /\ mixed' = mixed
  <2>1. CASE \/ readCursor("loop") /\ calls'["loop"] = calls["loop"] /\ loaded'["loop"] = buffer_cursor
             \/ /\ write("loop") /\ Head(calls["loop"]).op = "flushOutput"
                /\ calls'["loop"] = calls["loop"] /\ loaded'["loop"] = buffer_cursor
    <3>1. buffer_cursor' = buffer_cursor /\ outside' = outside
      BY <2>1 DEF readCursor, write
    <3>2. QED  BY <1>4, <1>6, <2>1, <3>1 DEF AloneInv, LoopAlone, TaskAlone
  <2>2. CASE /\ storeByte("loop") /\ Head(calls["loop"]).op = "writeByte"
             /\ Tail(calls["loop"]) # <<>> /\ loaded'["loop"] = -1
             /\ calls'["loop"] = IfFull(loaded["loop"] + 1) \o Tail(calls["loop"])
    <3>1. PICK rest \in Seq(LoopCalls), f \in LoopCalls :
            rest = Tail(calls["loop"]) /\ f = flushOutput /\ f.op = "flushOutput" /\ EndsInFlush(rest)
      BY <1>1, <1>6, FirstCall, CallFacts, ThreadNames DEF CallsOf
    <3>2. PICK b \in ScreenBytes : Head(calls["loop"]).series = <<b>>
      BY <1>1, <1>6, <2>2, FirstCall, ThreadNames
    <3>3. buffer_cursor' = loaded["loop"] + 1 /\ loaded["loop"] \in Nat
          /\ (outside' <=> loaded["loop"] + 1 > BufferSize)
      <4>1. loaded["loop"] \in Nat
        BY <1>1, <2>2 DEF storeByte, ThreadInv
      <4>2. Len(<<b>>) = 1
        OBVIOUS
      <4>3. QED  BY <2>2, <3>2, <4>1, <4>2 DEF storeByte, Store
    <3>4. /\ loaded["loop"] + 1 = BufferSize => calls'["loop"] = <<f>> \o rest
          /\ loaded["loop"] + 1 # BufferSize => calls'["loop"] = rest
      <4>1. <<>> \o rest = rest
        BY <3>1
      <4>2. QED  BY <2>2, <3>1, <4>1 DEF IfFull
    <3>5. <<f>> \o rest # <<>> /\ Head(<<f>> \o rest) = f
      BY <3>1, OneMore
    <3>6. calls'["loop"] # <<>>
      BY <2>2, <3>1, <3>4, <3>5
    <3>7. ASSUME ~mixed'
          PROVE  /\ ~outside' /\ calls'["task"] = <<>>
                 /\ LoopAlone(calls'["loop"], buffer_cursor', loaded'["loop"])
                 /\ TaskAlone(calls'["task"], buffer_cursor')
      <4>1. buffer_cursor < BufferSize /\ loaded["loop"] = buffer_cursor /\ calls["task"] = <<>>
        BY <1>4, <1>6, <2>2, <3>3, <3>7 DEF LoopAlone
      <4>2. calls'["loop"] # <<f>> \o rest => buffer_cursor' < BufferSize
        BY <1>2, <3>3, <3>4, <4>1
      <4>3. ~outside'
        BY <1>2, <3>3, <4>1
      <4>4. QED  BY <1>5, <1>6, <2>2, <3>1, <3>5, <4>1, <4>2, <4>3 DEF LoopAlone, TaskAlone
    <3>8. QED  BY <1>6, <3>6, <3>7 DEF AloneInv
  <2>3. CASE flushed("loop") /\ loaded'["loop"] = -1
    <3>1. buffer_cursor' = 0 /\ outside' = outside
      BY <2>3 DEF flushed
    <3>2. QED  BY <1>2, <1>4, <1>5, <1>6, <2>3, <3>1 DEF AloneInv, LoopAlone, TaskAlone
  <2>4. QED  BY <1>6, <2>1, <2>2, <2>3, WriterFacts, CallFacts
<1>7. CASE /\ w = "task" /\ (failed' <=> failed) /\ ~failed /\ calls["task"] # <<>>
           /\ calls'["loop"] = calls["loop"] /\ loaded'["loop"] = loaded["loop"] /\ mixed' = mixed
  <2>0. /\ Tail(calls["task"]) \in Seq(TaskCalls) /\ calls["task"] \in Seq(TaskCalls)
        /\ Answering(calls["task"]) => Answering(Tail(calls["task"]))
    BY <1>1, <1>7, RestFacts, ThreadNames DEF ThreadInv, CallsOf
  <2>1. CASE write("task") /\ calls'["task"] = calls["task"]
    <3>1. buffer_cursor' = buffer_cursor /\ outside' = outside
      BY <2>1 DEF write
    <3>2. QED  BY <1>4, <1>7, <2>1, <3>1 DEF AloneInv, LoopAlone, TaskAlone
  <2>2. CASE flushed("task") /\ calls'["task"] = Tail(calls["task"])
    <3>1. buffer_cursor' = 0 /\ outside' = outside
      BY <2>2 DEF flushed
    <3>2. QED  BY <1>2, <1>4, <1>7, <2>0, <2>2, <3>1 DEF AloneInv, LoopAlone, TaskAlone
  <2>3. ASSUME Head(calls["task"]).op = "writeBytes", ~mixed
        PROVE  /\ calls["loop"] = <<>> /\ buffer_cursor = 0 /\ Head(calls["task"]).left = 3
               /\ Head(Tail(calls["task"])) = flushOutput /\ Answering(Tail(calls["task"]))
    <3>1. calls["loop"] = <<>> /\ buffer_cursor = 0 /\ Answering(calls["task"])
      BY <1>4, <1>7, <2>3 DEF TaskAlone
    <3>2. PICK cs \in Seq(TaskCalls), rest \in Seq(TaskCalls) :
            /\ cs = calls["task"] /\ rest = Tail(cs) /\ Head(cs) = cs[1] /\ Len(cs) \in Nat \ {0}
            /\ Len(rest) = Len(cs) - 1 /\ \A i \in 1 .. Len(cs) - 1 : rest[i] = cs[i + 1]
      <4>1. calls["task"] \in Seq(TaskCalls) /\ calls["task"] # <<>>
        BY <1>7, <2>0
      <4>2. PICK cs : cs = calls["task"] /\ cs \in Seq(TaskCalls) /\ cs # <<>>
        BY ONLY <4>1
      <4>3. /\ Tail(cs) \in Seq(TaskCalls) /\ Head(cs) = cs[1] /\ Len(cs) \in Nat \ {0}
            /\ Len(Tail(cs)) = Len(cs) - 1
            /\ \A i \in 1 .. Len(cs) - 1 : Tail(cs)[i] = cs[i + 1]
        BY ONLY <4>2, RestFacts
      <4>4. QED  BY ONLY <4>2, <4>3
    <3>3. 1 \in 1 .. Len(cs) /\ cs[1].op = "writeBytes"
      BY <2>3, <3>2
    <3>4. cs[1].left = 3 /\ 1 < Len(cs) /\ cs[1 + 1] = flushOutput
      BY <3>1, <3>2, <3>3 DEF Answering
    <3>5. 1 \in 1 .. Len(cs) - 1 /\ rest # <<>>
      <4>1. 1 \in 1 .. Len(cs) - 1 /\ Len(rest) # 0
        BY <3>2, <3>4
      <4>2. Len(<<>>) = 0
        OBVIOUS
      <4>3. QED  BY <4>1, <4>2
    <3>6. rest[1] = flushOutput /\ Head(rest) = rest[1]
      BY <3>2, <3>4, <3>5
    <3>7. QED  BY <2>0, <3>1, <3>2, <3>4, <3>6
  <2>4. CASE /\ fillBuffer("task") /\ Head(calls["task"]).op = "writeBytes"
             /\ calls'["task"] = <<flushOutput, [Head(calls["task"]) EXCEPT !.left = @ - Room]>>
                                   \o Tail(calls["task"])
    <3>1. calls'["task"] # <<>>
      <4>1. \A x, y : \A s \in Seq(TaskCalls) : <<x, y>> \o s # <<>>
        OBVIOUS
      <4>2. QED  BY <2>0, <2>4, <4>1
    <3>2. mixed
      <4>1. Head(calls["task"]).left > Room
        BY <2>4 DEF fillBuffer
      <4>2. QED  BY <1>2, <2>3, <2>4, <4>1 DEF Room
    <3>3. QED  BY <1>7, <3>1, <3>2 DEF AloneInv
  <2>5. CASE /\ copySeries("task") /\ Head(calls["task"]).op = "writeBytes"
             /\ Tail(calls["task"]) # <<>> /\ calls'["task"] = Tail(calls["task"])
    <3>1. Len(Head(calls["task"]).series) = 3
      BY <1>1, <1>7, <2>5, FirstCall, ThreadNames DEF Triples
    <3>2. buffer_cursor' = buffer_cursor + 3 /\ (outside' <=> buffer_cursor + 3 > BufferSize)
      BY <2>5, <3>1 DEF copySeries, Store
    <3>3. ASSUME ~mixed'
          PROVE  /\ ~outside' /\ calls'["loop"] = <<>>
                 /\ LoopAlone(calls'["loop"], buffer_cursor', loaded'["loop"])
                 /\ TaskAlone(calls'["task"], buffer_cursor')
      <4>1. calls["loop"] = <<>> /\ buffer_cursor = 0
            /\ Head(Tail(calls["task"])) = flushOutput /\ Answering(Tail(calls["task"]))
        BY <1>7, <2>3, <2>5, <3>3
      <4>2. ~outside'
        BY <1>2, <3>2, <4>1
      <4>3. QED  BY <1>7, <2>5, <4>1, <4>2, CallFacts DEF LoopAlone, TaskAlone
    <3>4. QED  BY <1>7, <2>5, <3>3 DEF AloneInv
  <2>6. QED  BY <1>7, <2>1, <2>2, <2>4, <2>5, WriterFacts
<1>8. QED  BY <1>3, <1>6, <1>7, WriterFacts, ThreadNames

\* LEMMA.  That stays so, whatever is done next.
LEMMA AloneStep ==
  ASSUME ConnectionTypes, AloneInv, [ConnectionNext]_connectionVars
  PROVE  AloneInv'
<1>1. CASE sendMenu /\ ~outside
  <2>1. PICK screen \in Seq(ScreenBytes), work \in Seq(LoopCalls) :
              /\ work # <<>> /\ EndsInFlush(work) /\ ShownBy(work) = screen
              /\ calls["loop"] = <<>> /\ calls' = [calls EXCEPT !["loop"] = work]
              /\ begun' = begun \o screen
    BY <1>1, SendMenuFacts
  <2>2. /\ mixed' = (calls["task"] # <<>>)
        /\ UNCHANGED <<buffer_cursor, loaded, failed, outside>>
    BY <1>1, SendMenuFacts DEF outputVars
  <2>3. calls'["loop"] = work /\ calls'["task"] = calls["task"] /\ loaded["loop"] = -1
    BY <2>1, ThreadNames DEF ConnectionTypes, ThreadInv
  <2>4. 0 < BufferSize
    BY BufferSizeAssumption
  <2>5. CASE failed
    BY <2>2, <2>5 DEF AloneInv
  <2>6. CASE ~failed /\ ~mixed'
    <3>1. calls["task"] = <<>> /\ buffer_cursor = 0
      BY <1>1, <2>1, <2>2, <2>6 DEF AloneInv
    <3>2. Answering(<<>>)
      BY DEF Answering
    <3>3. QED  BY <1>1, <2>1, <2>2, <2>3, <2>4, <3>1, <3>2 DEF AloneInv, LoopAlone, TaskAlone
  <2>7. CASE ~failed /\ mixed'
    BY <2>1, <2>2, <2>3, <2>7 DEF AloneInv
  <2>8. QED  BY <2>5, <2>6, <2>7
<1>2. CASE readKey /\ ~outside
  <2>1. PICK work \in AnswerCalls :
              /\ calls["task"] = <<>> /\ calls' = [calls EXCEPT !["task"] = work]
              /\ expected' = wire \o Series(work)
    BY <1>2, ReadKeyFacts
  <2>2. /\ mixed' = (calls["loop"] # <<>>)
        /\ UNCHANGED <<buffer_cursor, loaded, failed, outside>>
    BY <1>2, ReadKeyFacts DEF outputVars
  <2>3. calls'["task"] = work /\ calls'["loop"] = calls["loop"]
    BY <2>1, ThreadNames DEF ConnectionTypes
  <2>4. CASE failed
    BY <2>2, <2>4 DEF AloneInv
  <2>5. CASE ~failed
    <3>1. calls["loop"] = <<>> => buffer_cursor = 0
      BY <1>2, <2>1, <2>5 DEF AloneInv
    <3>2. Answering(work)
      BY DEF AnswerCalls
    <3>3. ~mixed' => calls["loop"] = <<>>
      BY <2>2
    <3>4. QED  BY <1>2, <2>2, <2>3, <3>1, <3>2, <3>3 DEF AloneInv, LoopAlone, TaskAlone
  <2>6. QED  BY <2>4, <2>5
<1>3. CASE ~outside /\ \E w \in Threads : Writes(w)
  BY <1>3, AloneWrites
<1>4. CASE UNCHANGED connectionVars
  BY <1>4 DEF connectionVars, outputVars, workVars, AloneInv
<1>5. QED  BY <1>1, <1>2, <1>3, <1>4 DEF ConnectionNext

\* THEOREM.  A byte is written outside the buffer only when answers meet a screen, or
\* after a failed write: for buffers of any size and screens and answers of any length.
THEOREM BytesStayWithinTheBuffer == ConnectionSpec => []WithinBuffer
<1>1. ConnectionInit => ConnectionTypes /\ AloneInv
  BY TypesInit, AloneInit
<1>2. ConnectionTypes /\ AloneInv /\ [ConnectionNext]_connectionVars => (ConnectionTypes /\ AloneInv)'
  BY TypesStep, AloneStep
<1>3. ConnectionTypes /\ AloneInv => WithinBuffer
  BY DEF AloneInv, WithinBuffer
<1>4. QED  BY <1>1, <1>2, <1>3, PTL DEF ConnectionSpec

-------------------------------------------------------------------------------
(* What has arrived                                                        *)

\* As long as nobody steps into the other's call, the cursor that a call goes on with
\* is the present one, and what has arrived and what is still to come make the screens.
OrderInv ==
  ~crossed /\ ~failed /\ ~outside =>
    /\ \A w \in Threads : loaded[w] # -1 => loaded[w] = buffer_cursor
    /\ loaded["loop"] = -1 \/ loaded["task"] = -1
    /\ OfScreens(Arrived) \o ShownBy(calls["loop"]) = begun

\* An answer that is sent alone: what has arrived and what is still to be sent make
\* what the user is to have got.
AnswersInv ==
  ~failed /\ ~mixed /\ calls["task"] # <<>> =>
    Arrived \o Series(calls["task"]) = expected

\* LEMMA.  What has arrived, when no write is going on and when one is.
LEMMA ArrivedIs ==
  /\ ~Flushing => Arrived = wire \o Filled(output_buffer, buffer_cursor)
  /\ wire \in Seq(OutputBytes) /\ Flushing => Arrived = wire
<1>1. Arrived = wire \o IF Flushing THEN <<>> ELSE Filled(output_buffer, buffer_cursor)
  BY DEF Arrived, Flushing, Filled
<1>2. QED  BY <1>1

\* LEMMA.  A list that is not empty is its first element and the others.
LEMMA Splits ==
  ASSUME NEW S, NEW cs \in Seq(S), cs # <<>>
  PROVE  \E c \in S, rest \in Seq(S) : c = Head(cs) /\ rest = Tail(cs) /\ cs = <<c>> \o rest
<1>1. PICK c \in S, rest \in Seq(S) : c = Head(cs) /\ rest = Tail(cs)
  <2>1. Head(cs) \in S /\ Tail(cs) \in Seq(S)
    OBVIOUS
  <2>2. QED  BY <2>1
<1>2. <<c>> \o rest = cs
  BY <1>1
<1>3. QED  BY <1>1, <1>2

\* LEMMA.  A byte of a screen that arrives is no longer to come.
LEMMA ScreenByteArrives ==
  ASSUME NEW x \in Seq(OutputBytes), NEW b \in ScreenBytes, NEW cs \in Seq(LoopCalls), cs # <<>>,
         Head(cs).op = "writeByte", Head(cs).series = <<b>>
  PROVE  OfScreens(x \o <<b>>) \o ShownBy(Tail(cs)) = OfScreens(x) \o ShownBy(cs)
<1>1. PICK c \in LoopCalls, rest \in Seq(LoopCalls) :
        c = Head(cs) /\ rest = Tail(cs) /\ cs = <<c>> \o rest
  <2>1. cs \in Seq(LoopCalls) /\ cs # <<>>
    OBVIOUS
  <2>2. QED  BY ONLY <2>1, Splits
<1>2. <<b>> \in Seq(OutputBytes) /\ <<b>> \in Seq(ScreenBytes) /\ <<c>> \in Seq(LoopCalls)
  BY DEF OutputBytes
<1>3. OfScreens(x \o <<b>>) = OfScreens(x) \o <<b>>
  BY <1>2, OfScreensFacts
<1>4. ShownBy(cs) = <<b>> \o ShownBy(rest)
  <2>1. ShownBy(<<c>>) = <<b>>
    BY <1>1, ShownFacts
  <2>2. ShownBy(<<c>> \o rest) = ShownBy(<<c>>) \o ShownBy(rest)
    BY <1>2, ShownFacts
  <2>3. QED  BY <1>1, <2>1, <2>2
<1>5. PICK y \in Seq(ScreenBytes), z \in Seq(ScreenBytes) : y = OfScreens(x) /\ z = ShownBy(rest)
  BY OfScreensFacts, ShownFacts
<1>6. (y \o <<b>>) \o z = y \o (<<b>> \o z)
  <2>1. ListsOf(ScreenBytes, y, <<b>>, z)
    BY <1>2 DEF ListsOf
  <2>2. QED  BY ONLY <2>1, Regroup
<1>7. QED  BY <1>1, <1>3, <1>4, <1>5, <1>6

\* LEMMA.  A flush does not write a byte of a screen.
LEMMA FlushShowsNothing ==
  ASSUME NEW rest \in Seq(LoopCalls)
  PROVE  ShownBy(<<flushOutput>> \o rest) = ShownBy(rest)
<1>1. <<flushOutput>> \in Seq(LoopCalls) /\ ShownBy(<<flushOutput>>) = <<>>
  BY CallFacts, ShownFacts
<1>2. ShownBy(<<flushOutput>> \o rest) = <<>> \o ShownBy(rest)
  BY <1>1, ShownFacts
<1>3. <<>> \o ShownBy(rest) = ShownBy(rest)
  BY ShownFacts
<1>4. QED  BY <1>2, <1>3

\* LEMMA.  OutputBytes of answers that arrive are not of screens.
LEMMA AnswersShowNothing ==
  ASSUME NEW x \in Seq(OutputBytes), NEW series \in Seq(OtherBytes)
  PROVE  OfScreens(x \o series) = OfScreens(x)
<1>1. series \in Seq(OutputBytes)
  BY SeqMonotonic DEF OutputBytes
<1>2. OfScreens(x \o series) = OfScreens(x) \o <<>>
  BY <1>1, OfScreensFacts
<1>3. OfScreens(x) \o <<>> = OfScreens(x)
  BY OfScreensFacts
<1>4. QED  BY <1>2, <1>3

\* LEMMA.  What is stored at the cursor arrives after what has arrived.
LEMMA StoredArrives ==
  ASSUME NEW sentBytes \in Seq(OutputBytes), NEW buffer \in [0 .. BufferSize - 1 -> OutputBytes],
         NEW series \in Seq(OutputBytes), NEW at \in Nat, at + Len(series) <= BufferSize
  PROVE  sentBytes \o Filled(Stored(buffer, series, at), at + Len(series))
           = (sentBytes \o Filled(buffer, at)) \o series
<1>1. Filled(Stored(buffer, series, at), at + Len(series)) = Filled(buffer, at) \o series
  BY StoredFills
<1>2. PICK a \in Seq(OutputBytes) : a = Filled(buffer, at)
  <2>1. at <= BufferSize
    BY BufferSizeAssumption
  <2>2. QED  BY <2>1, FilledTyped
<1>3. (sentBytes \o a) \o series = sentBytes \o (a \o series)
  <2>1. ListsOf(OutputBytes, sentBytes, a, series)
    BY DEF ListsOf
  <2>2. QED  BY ONLY <2>1, Regroup
<1>4. QED  BY <1>1, <1>2, <1>3

\* LEMMA.  Nothing has been filled of a buffer whose cursor is 0.
LEMMA NothingFilled ==
  ASSUME NEW sentBytes \in Seq(OutputBytes), NEW buffer
  PROVE  Filled(buffer, 0) = <<>> /\ sentBytes \o Filled(buffer, 0) = sentBytes
<1>1. Filled(buffer, 0) = <<>>
  BY DEF Filled
<1>2. QED  BY <1>1

\* LEMMA.  While no write is going on, whatever is added to the buffer has arrived.
LEMMA ArrivesNow ==
  ASSUME ConnectionTypes, ~outside, ~Flushing
  PROVE  /\ Arrived = wire \o Filled(output_buffer, buffer_cursor)
         /\ Filled(output_buffer, buffer_cursor) \in Seq(OutputBytes) /\ Arrived \in Seq(OutputBytes)
<1>1. Filled(output_buffer, buffer_cursor) \in Seq(OutputBytes) /\ wire \in Seq(OutputBytes)
  BY FilledTyped DEF ConnectionTypes
<1>2. \A x, y \in Seq(OutputBytes) : x \o y \in Seq(OutputBytes)
  OBVIOUS
<1>3. Arrived = wire \o Filled(output_buffer, buffer_cursor)
  BY ArrivedIs
<1>4. QED  BY <1>1, <1>2, <1>3

\* LEMMA.  What has arrived is the same as before while only calls are begun.
LEMMA ArrivedStays ==
  ASSUME UNCHANGED outputVars,
         \A w \in Threads : loaded[w] # -1 => calls'[w] = calls[w]
  PROVE  Arrived' = Arrived
<1>1. wire' = wire /\ loaded' = loaded /\ output_buffer' = output_buffer /\ buffer_cursor' = buffer_cursor
  BY DEF outputVars
<1>2. Flushing' <=> Flushing
  BY <1>1 DEF Flushing
<1>3. Filled(output_buffer, buffer_cursor)' = Filled(output_buffer, buffer_cursor)
  BY <1>1 DEF Filled
<1>4. Arrived = wire \o IF Flushing THEN <<>> ELSE Filled(output_buffer, buffer_cursor)
  BY DEF Arrived, Flushing, Filled
<1>5. Arrived' = wire' \o IF Flushing' THEN <<>> ELSE Filled(output_buffer, buffer_cursor)'
  BY DEF Arrived, Flushing, Filled
<1>6. QED  BY <1>1, <1>2, <1>3, <1>4, <1>5

\* LEMMA.  What is written in one step arrives, in order, if no write is going on.
LEMMA CopyArrives ==
  ASSUME ConnectionTypes, ~outside, ~outside', ~Flushing, ~Flushing',
         NEW series \in Seq(OutputBytes), NEW n \in Nat, n = Len(series),
         output_buffer' = Stored(output_buffer, series, buffer_cursor),
         buffer_cursor' = buffer_cursor + n, buffer_cursor + n <= BufferSize, wire' = wire
  PROVE  Arrived' = Arrived \o series
<1>1. buffer_cursor \in Nat /\ wire \in Seq(OutputBytes) /\ output_buffer \in [0 .. BufferSize - 1 -> OutputBytes]
  BY DEF ConnectionTypes
<1>2. wire \o Filled(Stored(output_buffer, series, buffer_cursor), buffer_cursor + n)
        = (wire \o Filled(output_buffer, buffer_cursor)) \o series
  <2>1. series \in Seq(OutputBytes) /\ n = Len(series) /\ buffer_cursor + n <= BufferSize
    OBVIOUS
  <2>2. buffer_cursor + Len(series) <= BufferSize
    BY ONLY n = Len(series), buffer_cursor + n <= BufferSize
  <2>3. wire \o Filled(Stored(output_buffer, series, buffer_cursor), buffer_cursor + Len(series))
          = (wire \o Filled(output_buffer, buffer_cursor)) \o series
    BY ONLY <1>1, <2>1, <2>2, StoredArrives
  <2>4. QED  BY ONLY <2>1, <2>3
<1>3. Arrived = wire \o Filled(output_buffer, buffer_cursor)
  BY ArrivedIs
<1>4. Arrived' = wire' \o Filled(output_buffer', buffer_cursor')
  BY DEF Arrived, Flushing, Filled
<1>5. QED  BY <1>2, <1>3, <1>4

\* LEMMA.  What is in the buffer has arrived before it is sent, and when it is.
LEMMA WriteArrives ==
  ASSUME ConnectionTypes, ~outside, ~Flushing, NEW w \in Threads, write(w)
  PROVE  Arrived' = Arrived
<1>1. wire' = wire \o Filled(output_buffer, buffer_cursor)
  BY DEF write, Filled
<1>2. wire \in Seq(OutputBytes) /\ Filled(output_buffer, buffer_cursor) \in Seq(OutputBytes)
      /\ Arrived = wire \o Filled(output_buffer, buffer_cursor)
  BY ArrivesNow DEF ConnectionTypes
<1>3. Flushing'
  <2>1. ThreadInv(w, calls[w], loaded[w]) /\ loaded \in [Threads -> Nat \cup {-1}]
        /\ calls \in [Threads -> Seq(LoopCalls) \cup Seq(TaskCalls)] /\ buffer_cursor \in Nat
    BY DEF ConnectionTypes
  <2>2. Goes(w, "flushOutput", <<flushOutput>>) /\ loaded' = [loaded EXCEPT ![w] = buffer_cursor]
    BY DEF write
  <2>3. calls[w] # <<>> /\ calls' = [calls EXCEPT ![w] = <<flushOutput>> \o Tail(calls[w])]
        /\ Head(calls[w]).op = "flushOutput"
    BY <2>2, GoesFacts
  <2>4. Head(calls[w]) = flushOutput /\ <<Head(calls[w])>> \o Tail(calls[w]) = calls[w]
    BY <2>1, <2>3, FirstCall
  <2>5. calls'[w] = calls[w] /\ loaded'[w] = buffer_cursor
    BY <2>1, <2>2, <2>3, <2>4
  <2>6. loaded'[w] # -1 /\ Head(calls'[w]).op = "flushOutput"
    BY <2>1, <2>3, <2>5
  <2>7. QED  BY <2>6 DEF Flushing
<1>4. Arrived' = wire' \o <<>>
  BY <1>3 DEF Arrived, Flushing
<1>5. PICK x \in Seq(OutputBytes) : x = wire'
  <2>1. \A y, z \in Seq(OutputBytes) : y \o z \in Seq(OutputBytes)
    OBVIOUS
  <2>2. QED  BY <1>1, <1>2, <2>1
<1>6. x \o <<>> = x
  OBVIOUS
<1>7. QED  BY <1>1, <1>2, <1>4, <1>5, <1>6

\* LEMMA.  What has been sent has arrived, before the cursor is set back and after.
LEMMA FlushedArrives ==
  ASSUME ConnectionTypes, NEW w \in Threads, flushed(w), ~Flushing'
  PROVE  Arrived = wire /\ Arrived' = wire /\ wire' = wire
<1>1. wire \in Seq(OutputBytes) /\ wire' = wire /\ buffer_cursor' = 0
  BY DEF ConnectionTypes, flushed
<1>2. Flushing
  BY DEF ConnectionTypes, flushed, Goes, Flushing
<1>3. Arrived = wire
  BY <1>1, <1>2, ArrivedIs
<1>4. Arrived' = wire' \o Filled(output_buffer', buffer_cursor')
  BY DEF Arrived, Flushing, Filled
<1>5. wire \o Filled(output_buffer', 0) = wire
  BY <1>1, NothingFilled
<1>6. QED  BY <1>1, <1>3, <1>4, <1>5

-------------------------------------------------------------------------------
(* Screens, byte by byte                                                   *)

\* LEMMA.  What each step that writes puts into the buffer, at the cursor.
LEMMA PutFacts ==
  ASSUME ConnectionTypes, ~outside, NEW w \in Threads
  PROVE  /\ storeByte(w) /\ loaded[w] = buffer_cursor /\ ~outside' =>
              \E b \in ScreenBytes :
                /\ Head(calls[w]).series = <<b>> /\ <<b>> \in Seq(OutputBytes) /\ Len(<<b>>) = 1
                /\ output_buffer' = Stored(output_buffer, <<b>>, buffer_cursor)
                /\ buffer_cursor' = buffer_cursor + 1 /\ buffer_cursor + 1 <= BufferSize
                /\ wire' = wire
         /\ fillBuffer(w) =>
              \E series \in Seq(OtherBytes), n \in Nat :
                /\ n = Len(series) /\ series \in Seq(OutputBytes)
                /\ output_buffer' = Stored(output_buffer, series, buffer_cursor)
                /\ buffer_cursor' = buffer_cursor + n /\ buffer_cursor + n <= BufferSize
                /\ wire' = wire
         /\ copySeries(w) /\ ~outside' =>
              /\ Head(calls[w]).series \in Seq(OtherBytes) /\ Head(calls[w]).series \in Seq(OutputBytes)
              /\ Len(Head(calls[w]).series) = 3
              /\ output_buffer' = Stored(output_buffer, Head(calls[w]).series, buffer_cursor)
              /\ buffer_cursor' = buffer_cursor + 3 /\ buffer_cursor + 3 <= BufferSize
              /\ wire' = wire
<1>1. ThreadInv(w, calls[w], loaded[w])
  BY DEF ConnectionTypes
<1>2. buffer_cursor \in Nat /\ buffer_cursor <= BufferSize /\ BufferSize \in Nat
  BY BufferSizeAssumption DEF ConnectionTypes
<1>3. ASSUME storeByte(w), loaded[w] = buffer_cursor, ~outside'
      PROVE  \E b \in ScreenBytes :
                /\ Head(calls[w]).series = <<b>> /\ <<b>> \in Seq(OutputBytes) /\ Len(<<b>>) = 1
                /\ output_buffer' = Stored(output_buffer, <<b>>, buffer_cursor)
                /\ buffer_cursor' = buffer_cursor + 1 /\ buffer_cursor + 1 <= BufferSize
                /\ wire' = wire
  <2>1. calls[w] # <<>> /\ Head(calls[w]).op = "writeByte"
    BY <1>3 DEF storeByte, Goes
  <2>2. PICK b \in ScreenBytes : Head(calls[w]).series = <<b>>
    BY <1>1, <2>1, FirstCall
  <2>3. <<b>> \in Seq(OutputBytes) /\ Len(<<b>>) = 1
    BY DEF OutputBytes
  <2>4. /\ output_buffer' = Stored(output_buffer, <<b>>, buffer_cursor)
        /\ (outside' <=> buffer_cursor + 1 > BufferSize)
        /\ buffer_cursor' = buffer_cursor + 1 /\ wire' = wire
    BY <1>3, <2>2, <2>3 DEF storeByte, Store, Stored
  <2>5. buffer_cursor + 1 <= BufferSize
    BY <1>2, <1>3, <2>4
  <2>6. QED  BY <2>2, <2>3, <2>4, <2>5
<1>4. ASSUME fillBuffer(w)
      PROVE  \E series \in Seq(OtherBytes), n \in Nat :
                /\ n = Len(series) /\ series \in Seq(OutputBytes)
                /\ output_buffer' = Stored(output_buffer, series, buffer_cursor)
                /\ buffer_cursor' = buffer_cursor + n /\ buffer_cursor + n <= BufferSize
                /\ wire' = wire
  <2>1. calls[w] # <<>> /\ Head(calls[w]).op = "writeBytes" /\ Head(calls[w]).left > Room
    BY <1>4 DEF fillBuffer, Goes
  <2>2. Head(calls[w]).series \in Triples /\ Head(calls[w]).left \in {1, 2, 3}
    BY <1>1, <2>1, FirstCall
  <2>3. Room \in 0 .. 2 /\ buffer_cursor + Room = BufferSize
    <3>1. Room \in Nat /\ buffer_cursor + Room = BufferSize
      BY <1>2 DEF Room
    <3>2. PICK n \in {1, 2, 3} : n = Head(calls[w]).left
      BY <2>2
    <3>3. Room < n
      BY <2>1, <3>1, <3>2
    <3>4. QED  BY <3>1, <3>2, <3>3
  <2>4. PICK series \in Seq(OtherBytes) :
          series = SubSeq(Head(calls[w]).series, 1, Room) /\ Len(series) = Room
    <3>1. Head(calls[w]).series \in Seq(OtherBytes) /\ Len(Head(calls[w]).series) = 3
      BY <2>2 DEF Triples
    <3>2. \A s \in Seq(OtherBytes), n \in 0 .. 2 :
            Len(s) = 3 => SubSeq(s, 1, n) \in Seq(OtherBytes) /\ Len(SubSeq(s, 1, n)) = n
      OBVIOUS
    <3>3. QED  BY <2>3, <3>1, <3>2
  <2>5. series \in Seq(OutputBytes)
    BY SeqMonotonic DEF OutputBytes
  <2>6. output_buffer' = Stored(output_buffer, series, buffer_cursor)
        /\ buffer_cursor' = BufferSize /\ wire' = wire
    BY <1>4, <2>4 DEF fillBuffer, Store, Stored
  <2>7. PICK n \in Nat : n = Room
    BY <2>3
  <2>8. n = Len(series) /\ buffer_cursor' = buffer_cursor + n /\ buffer_cursor + n <= BufferSize
    BY ONLY <1>2, <2>3, <2>4, <2>6, <2>7
  <2>9. QED  BY ONLY <2>4, <2>5, <2>6, <2>7, <2>8
<1>5. ASSUME copySeries(w), ~outside'
      PROVE   /\ Head(calls[w]).series \in Seq(OtherBytes) /\ Head(calls[w]).series \in Seq(OutputBytes)
              /\ Len(Head(calls[w]).series) = 3
              /\ output_buffer' = Stored(output_buffer, Head(calls[w]).series, buffer_cursor)
              /\ buffer_cursor' = buffer_cursor + 3 /\ buffer_cursor + 3 <= BufferSize
              /\ wire' = wire
  <2>1. calls[w] # <<>> /\ Head(calls[w]).op = "writeBytes"
    BY <1>5 DEF copySeries, Goes
  <2>2. PICK s \in Triples : s = Head(calls[w]).series
    BY <1>1, <2>1, FirstCall
  <2>3. s \in Seq(OtherBytes) /\ s \in Seq(OutputBytes) /\ Len(s) = 3
    BY SeqMonotonic DEF OutputBytes, Triples
  <2>4. /\ output_buffer' = Stored(output_buffer, s, buffer_cursor)
        /\ (outside' <=> buffer_cursor + 3 > BufferSize)
        /\ buffer_cursor' = buffer_cursor + 3 /\ wire' = wire
    BY <1>5, <2>2, <2>3 DEF copySeries, Store, Stored
  <2>5. buffer_cursor + 3 <= BufferSize
    BY <1>2, <1>5, <2>4
  <2>6. QED  BY <2>2, <2>3, <2>4, <2>5
<1>6. QED  BY <1>3, <1>4, <1>5

\* LEMMA.  As long as nobody steps into the other's call, each step of a call keeps the
\* order of the bytes of screens.
LEMMA OrderWrites ==
  ASSUME ConnectionTypes, OrderInv, ~outside, NEW w \in Threads, Writes(w),
         ~crossed', ~failed', ~outside'
  PROVE  OrderInv'
<1>1. /\ ThreadInv("loop", calls["loop"], loaded["loop"])
      /\ ThreadInv("task", calls["task"], loaded["task"])
      /\ ThreadInv(w, calls[w], loaded[w])
  BY ThreadNames DEF ConnectionTypes
<1>2. PICK v \in Threads : /\ v = Other(w) /\ v # w /\ \A u \in Threads : u = w \/ u = v
                           /\ "loop" \in {v, w} /\ "task" \in {v, w}
  BY ThreadNames
<1>3. /\ calls'[v] = calls[v] /\ loaded'[v] = loaded[v] /\ calls[w] # <<>>
      /\ ~failed /\ ~crossed /\ loaded[v] = -1 /\ begun' = begun
  BY <1>2, WriterFacts
<1>4. /\ loaded[w] # -1 => loaded[w] = buffer_cursor
      /\ OfScreens(Arrived) \o ShownBy(calls["loop"]) = begun
      /\ buffer_cursor \in Nat /\ wire \in Seq(OutputBytes)
  BY <1>3 DEF OrderInv, ConnectionTypes
<1>5. ~Flushing <=> loaded[w] = -1 \/ Head(calls[w]).op # "flushOutput"
  BY <1>2, <1>3 DEF Flushing
<1>6. ~Flushing' <=> loaded'[w] = -1 \/ Head(calls'[w]).op # "flushOutput"
  BY <1>2, <1>3 DEF Flushing
<1>7. ASSUME OfScreens(Arrived') \o ShownBy(calls'["loop"]) = begun,
             loaded'[w] = -1 \/ loaded'[w] = buffer_cursor'
      PROVE  OrderInv'
  BY <1>2, <1>3, <1>7 DEF OrderInv
<1>8. CASE /\ readCursor(w) /\ w = "loop" /\ Head(calls[w]).op = "writeByte"
           /\ calls'[w] = calls[w] /\ loaded'[w] = buffer_cursor
           /\ loaded[w] = -1
  <2>1. wire' = wire /\ output_buffer' = output_buffer /\ buffer_cursor' = buffer_cursor
    BY <1>8 DEF readCursor
  <2>2. ~Flushing /\ ~Flushing'
    BY <1>5, <1>6, <1>8
  <2>3. Arrived = wire \o Filled(output_buffer, buffer_cursor)
    BY <2>2, ArrivedIs
  <2>4. Arrived' = wire' \o Filled(output_buffer', buffer_cursor')
    BY <2>2 DEF Arrived, Flushing, Filled
  <2>5. QED  BY <1>4, <1>7, <1>8, <2>1, <2>3, <2>4
<1>9. CASE /\ storeByte(w) /\ w = "loop" /\ Head(calls[w]).op = "writeByte"
           /\ loaded'[w] = -1
           /\ calls'[w] = IfFull(loaded[w] + 1) \o Tail(calls[w])
  <2>1. loaded[w] = buffer_cursor
    BY <1>4, <1>9 DEF storeByte
  <2>2. PICK b \in ScreenBytes :
                /\ Head(calls[w]).series = <<b>> /\ <<b>> \in Seq(OutputBytes) /\ Len(<<b>>) = 1
                /\ output_buffer' = Stored(output_buffer, <<b>>, buffer_cursor)
                /\ buffer_cursor' = buffer_cursor + 1 /\ buffer_cursor + 1 <= BufferSize
                /\ wire' = wire
    BY <1>9, <2>1, PutFacts
  <2>3. ~Flushing /\ ~Flushing'
    BY <1>5, <1>6, <1>9
  <2>4. Arrived' = Arrived \o <<b>> /\ Arrived \in Seq(OutputBytes)
    BY <2>2, <2>3, CopyArrives, ArrivesNow
  <2>5. PICK cs \in Seq(LoopCalls), rest \in Seq(LoopCalls) :
          cs = calls["loop"] /\ rest = Tail(cs) /\ cs # <<>>
    BY <1>1, <1>3, <1>9, RestFacts DEF ThreadInv, CallsOf
  <2>6. OfScreens(Arrived \o <<b>>) \o ShownBy(rest) = OfScreens(Arrived) \o ShownBy(cs)
    BY <1>9, <2>2, <2>4, <2>5, ScreenByteArrives
  <2>7. ShownBy(calls'["loop"]) = ShownBy(rest)
    <3>1. <<>> \o rest = rest
      OBVIOUS
    <3>2. ShownBy(<<flushOutput>> \o rest) = ShownBy(rest)
      BY FlushShowsNothing
    <3>3. QED  BY <1>9, <2>5, <3>1, <3>2 DEF IfFull
  <2>8. QED  BY <1>4, <1>7, <1>9, <2>4, <2>5, <2>6, <2>7
<1>10. CASE /\ fillBuffer(w) \/ copySeries(w)
            /\ w = "task" /\ Head(calls[w]).op = "writeBytes" /\ loaded'[w] = loaded[w]
  <2>1. loaded[w] = -1 /\ calls'["loop"] = calls["loop"]
    BY <1>1, <1>2, <1>3, <1>10 DEF ThreadInv
  <2>2. PICK series \in Seq(OtherBytes), n \in Nat :
                /\ n = Len(series) /\ series \in Seq(OutputBytes)
                /\ output_buffer' = Stored(output_buffer, series, buffer_cursor)
                /\ buffer_cursor' = buffer_cursor + n /\ buffer_cursor + n <= BufferSize
                /\ wire' = wire
    BY <1>10, PutFacts
  <2>3. ~Flushing /\ ~Flushing'
    BY <1>5, <1>6, <1>10, <2>1
  <2>4. Arrived' = Arrived \o series /\ Arrived \in Seq(OutputBytes)
    BY <2>2, <2>3, CopyArrives, ArrivesNow
  <2>5. OfScreens(Arrived \o series) = OfScreens(Arrived)
    BY <2>4, AnswersShowNothing
  <2>6. QED  BY <1>4, <1>7, <1>10, <2>1, <2>4, <2>5
<1>11. CASE /\ write(w) /\ calls'[w] = calls[w] /\ loaded'[w] = buffer_cursor /\ loaded[w] = -1
  <2>1. ~Flushing /\ buffer_cursor' = buffer_cursor /\ calls'["loop"] = calls["loop"]
    BY <1>2, <1>3, <1>5, <1>11 DEF write
  <2>2. Arrived' = Arrived
    BY <1>11, <2>1, WriteArrives
  <2>3. QED  BY <1>4, <1>7, <1>11, <2>1, <2>2
<1>12. CASE /\ flushed(w) /\ Head(calls[w]) = flushOutput
            /\ calls'[w] = Tail(calls[w]) /\ loaded'[w] = -1
  <2>1. Arrived' = Arrived
    BY <1>6, <1>12, FlushedArrives
  <2>2. ShownBy(calls'["loop"]) = ShownBy(calls["loop"])
    <3>1. CASE w = "task"
      BY <1>2, <1>3, <3>1
    <3>2. CASE w = "loop"
      <4>1. PICK cs \in Seq(LoopCalls), c \in LoopCalls, rest \in Seq(LoopCalls) :
              cs = calls["loop"] /\ c = Head(cs) /\ rest = Tail(cs) /\ cs = <<c>> \o rest
        <5>1. CallsOf("loop") = LoopCalls
          BY DEF CallsOf
        <5>2. calls["loop"] \in Seq(CallsOf("loop"))
          BY <1>1 DEF ThreadInv
        <5>3. calls["loop"] # <<>>
          BY <1>3, <3>2
        <5>4. calls["loop"] \in Seq(LoopCalls)
          BY ONLY <5>1, <5>2
        <5>5. PICK cs : cs = calls["loop"] /\ cs \in Seq(LoopCalls) /\ cs # <<>>
          BY ONLY <5>3, <5>4
        <5>6. PICK c \in LoopCalls, rest \in Seq(LoopCalls) :
                c = Head(cs) /\ rest = Tail(cs) /\ cs = <<c>> \o rest
          BY ONLY <5>5, Splits
        <5>7. QED  BY <5>5, <5>6
      <4>2. ShownBy(<<flushOutput>> \o rest) = ShownBy(rest)
        BY FlushShowsNothing
      <4>3. QED  BY <1>12, <3>2, <4>1, <4>2
    <3>3. w = "task" \/ w = "loop"
      BY ThreadNames
    <3>4. QED  BY ONLY <3>1, <3>2, <3>3
  <2>3. QED  BY <1>4, <1>7, <1>12, <2>1, <2>2
<1>13. \/ readCursor(w) /\ w = "loop" /\ Head(calls[w]).op = "writeByte"
          /\ calls'[w] = calls[w] /\ loaded'[w] = buffer_cursor /\ loaded[w] = -1
       \/ storeByte(w) /\ w = "loop" /\ Head(calls[w]).op = "writeByte" /\ loaded'[w] = -1
          /\ calls'[w] = IfFull(loaded[w] + 1) \o Tail(calls[w])
       \/ (fillBuffer(w) \/ copySeries(w))
          /\ w = "task" /\ Head(calls[w]).op = "writeBytes" /\ loaded'[w] = loaded[w]
       \/ write(w) /\ calls'[w] = calls[w] /\ loaded'[w] = buffer_cursor /\ loaded[w] = -1
       \/ flushed(w) /\ Head(calls[w]) = flushOutput
          /\ calls'[w] = Tail(calls[w]) /\ loaded'[w] = -1
  BY WriterFacts
<1>14. QED  BY ONLY <1>8, <1>9, <1>10, <1>11, <1>12, <1>13

\* LEMMA.  At first no screen has begun and nothing has arrived.
LEMMA OrderInit == ConnectionInit => OrderInv
<1> SUFFICES ASSUME ConnectionInit PROVE OrderInv
  OBVIOUS
<1>1. calls["loop"] = <<>> /\ buffer_cursor = 0 /\ wire = <<>> /\ begun = <<>>
      /\ \A w \in Threads : loaded[w] = -1
  BY ThreadNames DEF ConnectionInit
<1>2. ~Flushing
  BY <1>1 DEF Flushing
<1>3. Arrived = <<>>
  <2>1. <<>> \in Seq(OutputBytes)
    OBVIOUS
  <2>2. Arrived = wire \o Filled(output_buffer, 0)
    BY <1>1, <1>2, ArrivedIs
  <2>3. QED  BY <1>1, <2>1, <2>2, NothingFilled
<1>4. OfScreens(Arrived) = <<>> /\ ShownBy(calls["loop"]) = <<>>
  BY <1>1, <1>3, OfScreensFacts, ShownFacts
<1>5. <<>> \o <<>> = <<>>
  OBVIOUS
<1>6. OfScreens(Arrived) \o ShownBy(calls["loop"]) = begun
  BY <1>1, <1>4, <1>5
<1>7. QED  BY <1>1, <1>6, ThreadNames DEF OrderInv

\* LEMMA.  A thread that has nothing to call goes on with nothing.
LEMMA Idle ==
  ASSUME ConnectionTypes, NEW w \in Threads, calls[w] = <<>>
  PROVE  loaded[w] = -1
BY DEF ConnectionTypes, ThreadInv

\* LEMMA.  The order of the bytes of screens stays, whatever is done next.
LEMMA OrderStep ==
  ASSUME ConnectionTypes, OrderInv, [ConnectionNext]_connectionVars
  PROVE  OrderInv'
<1> SUFFICES ASSUME ~crossed', ~failed', ~outside' PROVE OrderInv'
  BY DEF OrderInv
<1>1. /\ calls \in [Threads -> Seq(LoopCalls) \cup Seq(TaskCalls)]
      /\ buffer_cursor \in Nat /\ (~outside => buffer_cursor <= BufferSize) /\ wire \in Seq(OutputBytes)
  BY DEF ConnectionTypes
<1>2. CASE sendMenu
  <2>1. PICK screen \in Seq(ScreenBytes), work \in Seq(LoopCalls) :
              /\ work # <<>> /\ EndsInFlush(work) /\ ShownBy(work) = screen
              /\ calls["loop"] = <<>> /\ calls' = [calls EXCEPT !["loop"] = work]
              /\ begun' = begun \o screen
    BY <1>2, SendMenuFacts
  <2>2. UNCHANGED <<outputVars, crossed, failed, outside>> /\ loaded' = loaded
        /\ buffer_cursor' = buffer_cursor
    BY <1>2, SendMenuFacts DEF outputVars
  <2>3. loaded["loop"] = -1 /\ calls'["loop"] = work /\ calls'["task"] = calls["task"]
    BY <1>1, <2>1, Idle, ThreadNames
  <2>4. Arrived' = Arrived
    BY <2>2, <2>3, ArrivedStays, ThreadNames
  <2>5. /\ \A w \in Threads : loaded[w] # -1 => loaded[w] = buffer_cursor
        /\ loaded["loop"] = -1 \/ loaded["task"] = -1
        /\ OfScreens(Arrived) \o ShownBy(calls["loop"]) = begun
    BY <2>2 DEF OrderInv
  <2>6. PICK x \in Seq(ScreenBytes) : x = OfScreens(Arrived)
    <3>1. Arrived \in Seq(OutputBytes)
      <4>1. CASE Flushing
        BY <1>1, <4>1, ArrivedIs
      <4>2. CASE ~Flushing
        BY <2>2, <4>2, ArrivesNow
      <4>3. QED  BY <4>1, <4>2
    <3>2. QED  BY <3>1, OfScreensFacts
  <2>7. x = begun
    <3>1. x \o <<>> = x
      OBVIOUS
    <3>2. QED  BY <2>1, <2>5, <2>6, <3>1, ShownFacts
  <2>8. OfScreens(Arrived') \o ShownBy(calls'["loop"]) = begun'
    BY <2>1, <2>3, <2>4, <2>6, <2>7
  <2>9. QED  BY <2>2, <2>5, <2>8 DEF OrderInv
<1>3. CASE readKey
  <2>1. PICK work \in AnswerCalls :
              /\ calls["task"] = <<>> /\ calls' = [calls EXCEPT !["task"] = work]
    BY <1>3, ReadKeyFacts
  <2>2. UNCHANGED <<outputVars, begun, crossed, failed, outside>> /\ loaded' = loaded
        /\ buffer_cursor' = buffer_cursor
    BY <1>3, ReadKeyFacts DEF outputVars
  <2>3. loaded["task"] = -1 /\ calls'["loop"] = calls["loop"]
    BY <1>1, <2>1, Idle, ThreadNames
  <2>4. Arrived' = Arrived
    BY <2>2, <2>3, ArrivedStays, ThreadNames
  <2>5. /\ \A w \in Threads : loaded[w] # -1 => loaded[w] = buffer_cursor
        /\ loaded["loop"] = -1 \/ loaded["task"] = -1
        /\ OfScreens(Arrived) \o ShownBy(calls["loop"]) = begun
    BY <2>2 DEF OrderInv
  <2>6. OfScreens(Arrived') \o ShownBy(calls'["loop"]) = begun'
    BY <2>2, <2>3, <2>4, <2>5
  <2>9. QED  BY <2>2, <2>5, <2>6 DEF OrderInv
<1>4. CASE ~outside /\ \E w \in Threads : Writes(w)
  BY <1>4, OrderWrites
<1>5. CASE UNCHANGED connectionVars
  <2>1. /\ UNCHANGED <<calls, loaded, buffer_cursor, output_buffer, wire, begun, crossed, failed, outside>>
        /\ UNCHANGED outputVars
    BY <1>5 DEF connectionVars, outputVars, workVars
  <2>2. Arrived' = Arrived
    BY <2>1, ArrivedStays
  <2>3. OfScreens(Arrived') \o ShownBy(calls'["loop"]) = OfScreens(Arrived) \o ShownBy(calls["loop"])
    BY <2>1, <2>2
  <2>4. QED  BY <2>1, <2>3 DEF OrderInv
<1>6. QED  BY <1>2, <1>3, <1>4, <1>5 DEF ConnectionNext

\* THEOREM.  Wherever answers come in between, the bytes of screens get through the
\* buffer in order and none is lost or repeated, whatever the size of the buffer is,
\* unless a call was made right in the middle of another, or a write failed.
THEOREM ScreensGetThroughInOrder == ConnectionSpec => []ScreensInOrder
<1>1. ConnectionInit => ConnectionTypes /\ OrderInv
  BY TypesInit, OrderInit
<1>2. ConnectionTypes /\ OrderInv /\ [ConnectionNext]_connectionVars => (ConnectionTypes /\ OrderInv)'
  BY TypesStep, OrderStep
<1>3. ConnectionTypes /\ OrderInv => ScreensInOrder
  BY DEF OrderInv, ScreensInOrder, ToCome, ShownBy
<1>4. QED  BY <1>1, <1>2, <1>3, PTL DEF ConnectionSpec

-------------------------------------------------------------------------------
(* Answers, whole                                                          *)

\* LEMMA.  At first there is no answer.
LEMMA AnswersInit == ConnectionInit => AnswersInv
BY ThreadNames DEF ConnectionInit, AnswersInv

\* LEMMA.  A flush is not part of an answer.
LEMMA FlushAnswersNothing ==
  ASSUME NEW rest \in Seq(TaskCalls)
  PROVE  Series(<<flushOutput>> \o rest) = Series(rest)
<1>1. <<flushOutput>> \in Seq(TaskCalls) /\ Series(<<flushOutput>>) = <<>>
  BY CallFacts, SeriesFacts
<1>2. Series(<<flushOutput>> \o rest) = <<>> \o Series(rest)
  BY <1>1, SeriesFacts
<1>3. PICK s \in Seq(OtherBytes) : s = Series(rest)
  BY SeriesFacts
<1>4. <<>> \o s = s
  OBVIOUS
<1>5. QED  BY <1>2, <1>3, <1>4

\* LEMMA.  An answer that is sent alone arrives as it was to be, whatever is done next.
LEMMA AnswersWrites ==
  ASSUME ConnectionTypes, AloneInv, AnswersInv, ~outside, NEW w \in Threads, Writes(w)
  PROVE  AnswersInv'
<1> SUFFICES ASSUME ~failed', ~mixed', calls'["task"] # <<>>
             PROVE  Arrived' \o Series(calls'["task"]) = expected'
  BY DEF AnswersInv
<1>1. /\ AloneInv' /\ ~outside'
      /\ ThreadInv("task", calls["task"], loaded["task"])
      /\ loaded \in [Threads -> Nat \cup {-1}]
  BY AloneWrites, ThreadNames DEF AloneInv, ConnectionTypes
<1>2. /\ \A v \in Threads : v # w => calls'[v] = calls[v] /\ loaded'[v] = loaded[v]
      /\ calls[w] # <<>> /\ ~failed /\ ~mixed /\ expected' = expected
  BY WriterFacts
<1>3. calls["loop"] = <<>> \/ calls["task"] = <<>>
  BY <1>2 DEF AloneInv
<1>4. w = "task" /\ calls["loop"] = <<>> /\ loaded["loop"] = -1 /\ loaded'["loop"] = -1
  <2>1. w = "task" /\ calls["loop"] = <<>>
    BY <1>2, <1>3, ThreadNames
  <2>2. QED  BY <1>2, <2>1, Idle, ThreadNames
<1>5. Arrived \o Series(calls["task"]) = expected
  BY <1>2, <1>4 DEF AnswersInv
<1>6. TaskAlone(calls["task"], buffer_cursor)
  BY <1>2 DEF AloneInv
<1>7. ~Flushing <=> loaded["task"] = -1 \/ Head(calls["task"]).op # "flushOutput"
  BY <1>4, ThreadNames DEF Flushing
<1>8. ~Flushing' <=> loaded'["task"] = -1 \/ Head(calls'["task"]).op # "flushOutput"
  BY <1>4, ThreadNames DEF Flushing
<1>9. PICK c \in TaskCalls, rest \in Seq(TaskCalls) :
        c = Head(calls["task"]) /\ rest = Tail(calls["task"]) /\ calls["task"] = <<c>> \o rest
  <2>1. CallsOf("task") = TaskCalls
    BY DEF CallsOf
  <2>2. calls["task"] \in Seq(TaskCalls) /\ calls["task"] # <<>>
    BY <1>1, <1>2, <1>4, <2>1 DEF ThreadInv
  <2>3. QED  BY ONLY <2>2, Splits
<1>10. CASE fillBuffer("task") /\ Head(calls["task"]).op = "writeBytes"
  <2>1. buffer_cursor = 0
    BY <1>2, <1>4, <1>6, <1>10 DEF TaskAlone
  <2>2. Head(calls["task"]).left \in {1, 2, 3} /\ Head(calls["task"]).left > Room
    BY <1>1, <1>2, <1>4, <1>10, FirstCall, ThreadNames DEF fillBuffer
  <2>3. Room = BufferSize
    BY <2>1, BufferSizeAssumption DEF Room
  <2>4. QED  BY <2>2, <2>3, BufferSizeAssumption
<1>11. CASE /\ copySeries("task") /\ Head(calls["task"]).op = "writeBytes"
            /\ loaded'["task"] = loaded["task"] /\ calls'["task"] = Tail(calls["task"])
  <2>1. PICK series \in Seq(OtherBytes) :
              /\ c.series = series /\ series \in Seq(OutputBytes) /\ 3 = Len(series)
              /\ output_buffer' = Stored(output_buffer, series, buffer_cursor)
              /\ buffer_cursor' = buffer_cursor + 3 /\ buffer_cursor + 3 <= BufferSize
              /\ wire' = wire
    BY <1>1, <1>9, <1>11, PutFacts, ThreadNames
  <2>2. loaded["task"] = -1
    BY <1>1, <1>2, <1>4, <1>11 DEF ThreadInv
  <2>3. ~Flushing /\ ~Flushing'
    BY <1>7, <1>8, <1>11, <2>2
  <2>4. Arrived' = Arrived \o series
    BY <1>1, <2>1, <2>3, CopyArrives
  <2>5. PICK a \in Seq(OutputBytes), d \in Seq(OutputBytes) : a = Arrived /\ d = Series(rest)
    <3>1. Series(rest) \in Seq(OtherBytes) /\ Arrived \in Seq(OutputBytes)
      BY <2>3, ArrivesNow, SeriesFacts
    <3>2. QED  BY <3>1, SeqMonotonic DEF OutputBytes
  <2>6. Series(calls["task"]) = series \o d
    <3>1. <<c>> \in Seq(TaskCalls) /\ Series(<<c>>) = series
      BY <2>1, SeriesFacts
    <3>2. Series(<<c>> \o rest) = Series(<<c>>) \o Series(rest)
      BY <3>1, SeriesFacts
    <3>3. QED  BY <1>9, <2>5, <3>1, <3>2
  <2>7. (a \o series) \o d = a \o (series \o d)
    <3>1. ListsOf(OutputBytes, a, series, d)
      BY <2>1 DEF ListsOf
    <3>2. QED  BY ONLY <3>1, Regroup
  <2>8. QED  BY <1>2, <1>5, <1>9, <1>11, <2>4, <2>5, <2>6, <2>7
<1>12. CASE write("task") /\ calls'["task"] = calls["task"] /\ loaded["task"] = -1
  <2>1. Arrived' = Arrived
    BY <1>7, <1>12, WriteArrives, ThreadNames
  <2>2. QED  BY <1>2, <1>5, <1>12, <2>1
<1>13. CASE /\ flushed("task") /\ Head(calls["task"]) = flushOutput
            /\ calls'["task"] = Tail(calls["task"]) /\ loaded'["task"] = -1
  <2>1. Arrived' = Arrived
    BY <1>8, <1>13, FlushedArrives, ThreadNames
  <2>2. Series(calls["task"]) = Series(rest)
    BY <1>9, <1>13, FlushAnswersNothing
  <2>3. QED  BY <1>2, <1>5, <1>9, <1>13, <2>1, <2>2
<1>14. QED  BY <1>4, <1>10, <1>11, <1>12, <1>13, WriterFacts

\* LEMMA.  That stays so, whatever is done next.
LEMMA AnswersStep ==
  ASSUME ConnectionTypes, AloneInv, AnswersInv, [ConnectionNext]_connectionVars
  PROVE  AnswersInv'
<1>1. calls \in [Threads -> Seq(LoopCalls) \cup Seq(TaskCalls)] /\ wire \in Seq(OutputBytes)
  BY DEF ConnectionTypes
<1>2. CASE sendMenu
  <2>1. mixed' = (calls["task"] # <<>>) /\ calls'["task"] = calls["task"]
    <3>1. PICK work : calls' = [calls EXCEPT !["loop"] = work]
      BY <1>2, SendMenuFacts
    <3>2. QED  BY <1>1, <1>2, <3>1, SendMenuFacts, ThreadNames
  <2>2. QED  BY <2>1 DEF AnswersInv
<1>3. CASE readKey /\ ~outside
  <2>1. PICK work \in AnswerCalls :
              /\ calls["task"] = <<>> /\ calls' = [calls EXCEPT !["task"] = work]
              /\ expected' = wire \o Series(work)
    BY <1>3, ReadKeyFacts
  <2>2. UNCHANGED <<outputVars, failed>> /\ (mixed' <=> calls["loop"] # <<>>)
    BY <1>3, ReadKeyFacts
  <2>3. ASSUME ~failed', ~mixed'
        PROVE  Arrived' \o Series(calls'["task"]) = expected'
    <3>1. calls["loop"] = <<>> /\ buffer_cursor = 0
      BY <1>3, <2>1, <2>2, <2>3 DEF AloneInv
    <3>2. \A w \in Threads : loaded[w] = -1
      BY <2>1, <3>1, Idle, ThreadNames
    <3>3. Arrived = wire
      <4>1. ~Flushing
        BY <3>2 DEF Flushing
      <4>2. QED  BY <1>1, <3>1, <4>1, ArrivedIs, NothingFilled
    <3>4. Arrived' = wire
      BY <2>2, <3>2, <3>3, ArrivedStays
    <3>5. calls'["task"] = work
      BY <1>1, <2>1, ThreadNames
    <3>6. QED  BY <2>1, <3>4, <3>5
  <2>4. QED  BY <2>3 DEF AnswersInv
<1>4. CASE ~outside /\ \E w \in Threads : Writes(w)
  BY <1>4, AnswersWrites
<1>5. CASE UNCHANGED connectionVars
  <2>1. UNCHANGED <<calls, loaded, expected, mixed, failed>> /\ UNCHANGED outputVars
    BY <1>5 DEF connectionVars, outputVars, workVars
  <2>2. Arrived' = Arrived
    BY <2>1, ArrivedStays
  <2>3. Arrived' \o Series(calls'["task"]) = Arrived \o Series(calls["task"])
    BY <2>1, <2>2
  <2>4. QED  BY <2>1, <2>3 DEF AnswersInv
<1>6. QED  BY <1>2, <1>3, <1>4, <1>5 DEF ConnectionNext

\* THEOREM.  The answers to whatever the user sent before a key, made while no screen is
\* being sent, have gone to the user when the task goes on, whole and with nothing else.
THEOREM AnswersAreWhole == ConnectionSpec => AnswersWhole
<1> DEFINE AtOnce == calls["task"] # <<>> /\ calls'["task"] = <<>> /\ ~mixed /\ ~failed'
                      => wire' = expected
           Inv == ConnectionTypes /\ AloneInv /\ AnswersInv
<1>1. ConnectionInit => Inv
  BY TypesInit, AloneInit, AnswersInit
<1>2. Inv /\ [ConnectionNext]_connectionVars => Inv'
  BY TypesStep, AloneStep, AnswersStep
<1>3. Inv /\ [ConnectionNext]_connectionVars => [AtOnce]_connectionVars
  <2> SUFFICES ASSUME Inv, ConnectionNext, calls["task"] # <<>>, calls'["task"] = <<>>,
                      ~mixed, ~failed'
               PROVE  wire' = expected
    OBVIOUS
  <2>0. calls \in [Threads -> Seq(LoopCalls) \cup Seq(TaskCalls)]
        /\ ThreadInv("task", calls["task"], loaded["task"])
    BY ThreadNames DEF ConnectionTypes
  <2>1. CASE sendMenu
    <3>1. PICK work : calls' = [calls EXCEPT !["loop"] = work]
      BY <2>1, SendMenuFacts
    <3>2. QED  BY <2>0, <3>1, ThreadNames
  <2>2. CASE readKey
    BY <2>2, ReadKeyFacts
  <2>3. CASE \E w \in Threads : Writes(w)
    <3>1. PICK w \in Threads : Writes(w)
      BY <2>3
    <3>2. /\ \A v \in Threads : v # w => calls'[v] = calls[v] /\ loaded'[v] = loaded[v]
          /\ ~failed
      BY <3>1, WriterFacts
    <3>3. w = "task"
      BY <3>2, ThreadNames
    <3>4. /\ flushed(w) /\ Head(calls[w]) = flushOutput
          /\ calls'[w] = Tail(calls[w]) /\ loaded'[w] = -1
      <4>1. PICK rest \in Seq(TaskCalls), f \in TaskCalls :
              rest = Tail(calls[w]) /\ f = flushOutput
        BY <2>0, <3>3, FirstCall, ThreadNames DEF CallsOf
      <4>2. /\ calls'[w] # calls[w] /\ calls'[w] = <<>>
            /\ \A c : <<f, c>> \o rest # <<>>
        <5>1. calls'[w] # calls[w] /\ calls'[w] = <<>>
          BY <3>3
        <5>2. ASSUME NEW c
              PROVE  <<f, c>> \o rest # <<>>
          <6>1. PICK n \in Nat : n = Len(rest)
            OBVIOUS
          <6>2. Len(<<f, c>> \o rest) = n + 2
            BY <6>1
          <6>3. PICK all : all = <<f, c>> \o rest
            OBVIOUS
          <6>4. all # <<>>
            <7>1. Len(all) = n + 2
              BY <6>2, <6>3
            <7>2. QED  BY ONLY <7>1, n \in Nat
          <6>5. QED  BY <6>3, <6>4
        <5>3. QED  BY <5>1, <5>2
      <4>3. \A c : calls'[w] # <<flushOutput, c>> \o Tail(calls[w])
        BY <4>1, <4>2
      <4>4. \/ /\ calls'[w] = calls[w] \/ (calls'[w] = Tail(calls[w]) /\ Tail(calls[w]) # <<>>)
            \/ calls'[w] = <<flushOutput, [Head(calls[w]) EXCEPT !.left = @ - Room]>>
                              \o Tail(calls[w])
            \/ /\ flushed(w) /\ Head(calls[w]) = flushOutput
               /\ calls'[w] = Tail(calls[w]) /\ loaded'[w] = -1
        BY <3>1, <3>3, WriterFacts
      <4>5. calls[w] # <<>> /\ calls'[w] = <<>>
        BY <3>3
      <4>6. QED  BY ONLY <4>3, <4>4, <4>5
    <3>5. calls["task"] = <<>> \o <<flushOutput>>
      <4>1. calls["task"] = <<flushOutput>> \o <<>>
        BY <2>0, <3>3, <3>4, FirstCall, ThreadNames
      <4>2. QED  BY <4>1
    <3>6. Series(calls["task"]) = <<>>
      <4>1. <<flushOutput>> \o <<>> = <<flushOutput>>
        OBVIOUS
      <4>2. QED  BY <3>5, <4>1, CallFacts, SeriesFacts
    <3>7. Arrived = wire /\ wire' = wire /\ wire \in Seq(OutputBytes)
      <4>1. calls["loop"] = <<>> /\ loaded'["loop"] = -1
        BY <3>2, <3>3, Idle, ThreadNames DEF AloneInv
      <4>2. ~Flushing'
        BY <3>3, <3>4, <4>1, ThreadNames DEF Flushing
      <4>3. QED  BY <3>4, <4>2, FlushedArrives DEF ConnectionTypes
    <3>8. Arrived \o Series(calls["task"]) = expected
      BY <3>2 DEF AnswersInv
    <3>9. QED  BY <3>6, <3>7, <3>8
  <2>4. QED  BY <2>1, <2>2, <2>3 DEF ConnectionNext
<1> HIDE DEF AtOnce, Inv
<1>4. ConnectionSpec => [][AtOnce]_connectionVars
  BY <1>1, <1>2, <1>3, PTL DEF ConnectionSpec
<1>5. QED  BY <1>4 DEF AnswersWhole, AtOnce

-------------------------------------------------------------------------------
(* The keys of a user                                                      *)

\* THEOREM.  Telnet commands are invisible to the keys: any command in the middle of
\* anything a user may send, in a key of several bytes too, leaves the keys as they are.
THEOREM CommandsLeaveKeys == ConnectionSpec => []CommandsInvisible
<1>1. ConnectionInit => ConnectionTypes
  BY TypesInit
<1>2. ConnectionTypes /\ [ConnectionNext]_connectionVars => ConnectionTypes'
  BY TypesStep
<1>3. ConnectionTypes => CommandsInvisible
  <2> SUFFICES ASSUME ConnectionTypes,
                      NEW p \in BoundariesFrom(input, 1), NEW command \in Commands
               PROVE  KeysFrom(WithCommand(command, p), 1) = KeysFrom(input, 1)
    BY DEF CommandsInvisible
  <2>1. input \in Seq(Bytes)
    BY InputsAssumption DEF ConnectionTypes
  <2>2. WithCommand(command, p) = Between(input, p, AsSent(command))
    BY DEF WithCommand, Between
  <2>3. QED  BY <2>1, <2>2, CommandBetween
<1>4. QED  BY <1>1, <1>2, <1>3, PTL DEF ConnectionSpec

\* THEOREM.  After anything at all but unfinished sub-options an arrow that is pressed
\* twice comes through: what is unfinished takes the first one at most.
THEOREM ArrowComesThrough == ConnectionSpec => []ArrowsResynchronise
<1>1. ConnectionInit => ConnectionTypes
  BY TypesInit
<1>2. ConnectionTypes /\ [ConnectionNext]_connectionVars => ConnectionTypes'
  BY TypesStep
<1>3. ConnectionTypes => ArrowsResynchronise
  <2>1. ConnectionTypes => input \in Seq(Bytes)
    BY InputsAssumption DEF ConnectionTypes
  <2>2. QED  BY <2>1, ArrowTwice DEF ArrowsResynchronise
<1>4. QED  BY <1>1, <1>2, <1>3, PTL DEF ConnectionSpec
===============================================================================
