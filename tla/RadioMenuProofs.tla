--------------------------- MODULE RadioMenuProofs ---------------------------
(***************************************************************************)
(* Proofs about RadioMenu, for any stations, any number of keys and of     *)
(* rounds of the discoverer: the mutexes are held where the code is inside *)
(* their scope, the menu has the stations of the list, in their order, no  *)
(* change of it goes unsent, and while nobody presses a key the marked     *)
(* option is the station that is played.                                   *)
(***************************************************************************)
EXTENDS RadioMenu, TLAPS, NaturalsInduction, WellFoundedInduction, SequenceTheorems

-------------------------------------------------------------------------------
(* Select: what is left of a list                                          *)

\* LEMMA.  A set of numbers that is not empty has a smallest one.
LEMMA Smallest ==
  ASSUME NEW T, T \subseteq Nat, T # {}
  PROVE  \E i \in T : \A j \in T : i <= j
<1>1. PICK i \in T : \A j \in T : ~(<<j, i>> \in OpToRel(<, Nat))
  BY NatLessThanWellFounded, WFMin
<1>2. \A j, k \in Nat : j < k => <<j, k>> \in OpToRel(<, Nat)
  BY DEF OpToRel
<1>3. ASSUME NEW j \in T PROVE i <= j
  <2>1. i \in Nat /\ j \in Nat /\ j \in T
    OBVIOUS
  <2>2. ~(j < i)
    BY ONLY <1>1, <1>2, <2>1
  <2>3. QED  BY <2>1, <2>2
<1>4. QED  BY <1>3

\* LEMMA.  Induction over the numbers up to n, for the set of those that are
\* shown to be good.
LEMMA UpToInduction ==
  ASSUME NEW n \in Nat, NEW Good, 0 \in Good,
         \A i \in 1 .. n : i - 1 \in Good => i \in Good
  PROVE  n \in Good
<1> DEFINE Bad == {i \in 0 .. n : i \notin Good}
<1> SUFFICES ASSUME n \notin Good PROVE FALSE
  OBVIOUS
<1>1. Bad # {} /\ Bad \subseteq Nat
  OBVIOUS
<1>2. PICK i \in Bad : \A j \in Bad : i <= j
  <2> HIDE DEF Bad
  <2>1. QED  BY <1>1, Smallest
<1>3. i \in 1 .. n /\ i \notin Good
  OBVIOUS
<1>4. i - 1 \in Good
  BY <1>2, <1>3
<1>5. QED  BY <1>3, <1>4

\* What Select's function is at the place n, by what it is before.
SelectStep(list, kept, f, n) ==
  IF n = 0 THEN <<>>
  ELSE IF n \in kept THEN Append(f[n - 1], list[n]) ELSE f[n - 1]

Selects(list, kept, f, m) == f = [n \in 0 .. m |-> SelectStep(list, kept, f, n)]

\* LEMMA.  The function Select is made of exists.
LEMMA SelectExists ==
  ASSUME NEW list, NEW kept, NEW m \in Nat
  PROVE  \E f : Selects(list, kept, f, m)
<1> DEFINE Good == {n \in Nat : \E f : Selects(list, kept, f, n)}
<1>1. 0 \in Good
  <2> DEFINE g == [n \in 0 .. 0 |-> <<>>]
  <2>1. \A n \in 0 .. 0 : SelectStep(list, kept, g, n) = <<>>
    BY DEF SelectStep
  <2>2. g = [n \in 0 .. 0 |-> SelectStep(list, kept, g, n)]
    <3> HIDE DEF g
    <3>1. g = [n \in 0 .. 0 |-> <<>>]
      BY DEF g
    <3>2. QED  BY <2>1, <3>1
  <2>3. QED  BY <2>2 DEF Selects
<1>2. ASSUME NEW n \in 1 .. m, n - 1 \in Good
      PROVE  n \in Good
  <2>1. PICK f : Selects(list, kept, f, n - 1)
    BY <1>2
  <2> DEFINE g == [i \in 0 .. n |-> SelectStep(list, kept, f, i)]
  <2>2. \A i \in 0 .. n - 1 : g[i] = f[i]
    BY <2>1 DEF Selects
  <2>3. \A i \in 0 .. n : SelectStep(list, kept, g, i) = SelectStep(list, kept, f, i)
    <3> HIDE DEF g
    <3>1. QED  BY <2>2 DEF SelectStep
  <2>4. Selects(list, kept, g, n)
    <3> HIDE DEF SelectStep
    <3>1. g = [i \in 0 .. n |-> SelectStep(list, kept, g, i)]
      BY <2>3
    <3>2. QED  BY <3>1 DEF Selects
  <2>5. QED  BY <2>4
<1>3. QED
  <2> HIDE DEF Good
  <2>1. m \in Good
    BY <1>1, <1>2, UpToInduction
  <2>2. QED  BY <2>1 DEF Good

\* LEMMA.  Select is the last value of such a function.
LEMMA SelectIs ==
  ASSUME NEW list, NEW kept, Len(list) \in Nat
  PROVE  \E f : /\ f[0] = <<>>
                /\ \A n \in 1 .. Len(list) :
                     f[n] = IF n \in kept THEN Append(f[n - 1], list[n]) ELSE f[n - 1]
                /\ Select(list, kept) = f[Len(list)]
<1> DEFINE f == CHOOSE f : Selects(list, kept, f, Len(list))
<1>1. Select(list, kept) = f[Len(list)]
  BY DEF Select, Selects, SelectStep
<1>2. Selects(list, kept, f, Len(list))
  BY SelectExists
<1> HIDE DEF f
<1>3. \A n \in 0 .. Len(list) : f[n] = SelectStep(list, kept, f, n)
  BY <1>2 DEF Selects
<1>4. QED  BY <1>1, <1>3 DEF SelectStep

\* What selecting from the first n of a list makes.
Selection(sel, list, kept, n) ==
  /\ Len(sel) <= n
  /\ Len(sel) = n => \A i \in 1 .. n : sel[i] = list[i]
  /\ \E p \in [1 .. Len(sel) -> 1 .. n] :
       /\ \A i \in 1 .. Len(sel) : p[i] \in kept /\ sel[i] = list[p[i]]
       /\ \A i, j \in 1 .. Len(sel) : i < j => p[i] < p[j]
       /\ \A k \in 1 .. n : k \in kept => \E i \in 1 .. Len(sel) : p[i] = k

\* LEMMA.  One more place of the list is looked at.
LEMMA SelectionGrows ==
  ASSUME NEW S, NEW list \in Seq(S), NEW kept, NEW n \in 1 .. Len(list),
         NEW sel \in Seq(S), Selection(sel, list, kept, n - 1)
  PROVE  LET more == IF n \in kept THEN Append(sel, list[n]) ELSE sel
         IN  more \in Seq(S) /\ Selection(more, list, kept, n)
<1>1. CASE n \notin kept
  <2>1. PICK p \in [1 .. Len(sel) -> 1 .. n - 1] :
           /\ \A i \in 1 .. Len(sel) : p[i] \in kept /\ sel[i] = list[p[i]]
           /\ \A i, j \in 1 .. Len(sel) : i < j => p[i] < p[j]
           /\ \A k \in 1 .. n - 1 : k \in kept => \E i \in 1 .. Len(sel) : p[i] = k
    BY DEF Selection
  <2>2. p \in [1 .. Len(sel) -> 1 .. n]
    OBVIOUS
  <2>3. \A k \in 1 .. n : k \in kept => \E i \in 1 .. Len(sel) : p[i] = k
    BY <1>1, <2>1
  <2>4. Len(sel) <= n - 1
    BY DEF Selection
  <2>5. Selection(sel, list, kept, n)
    BY <2>1, <2>2, <2>3, <2>4 DEF Selection
  <2>6. QED  BY <1>1, <2>5
<1>2. CASE n \in kept
  <2> DEFINE more == Append(sel, list[n])
  <2>1. PICK p \in [1 .. Len(sel) -> 1 .. n - 1] :
           /\ \A i \in 1 .. Len(sel) : p[i] \in kept /\ sel[i] = list[p[i]]
           /\ \A i, j \in 1 .. Len(sel) : i < j => p[i] < p[j]
           /\ \A k \in 1 .. n - 1 : k \in kept => \E i \in 1 .. Len(sel) : p[i] = k
    BY DEF Selection
  <2> DEFINE q == [i \in 1 .. Len(sel) + 1 |-> IF i = Len(sel) + 1 THEN n ELSE p[i]]
  <2>2. /\ more \in Seq(S) /\ Len(more) = Len(sel) + 1 /\ more[Len(sel) + 1] = list[n]
        /\ \A i \in 1 .. Len(sel) : more[i] = sel[i]
    OBVIOUS
  <2>3. /\ q \in [1 .. Len(sel) + 1 -> 1 .. n] /\ q[Len(sel) + 1] = n
        /\ \A i \in 1 .. Len(sel) : q[i] = p[i]
    OBVIOUS
  <2>4. Len(more) <= n /\ (Len(more) = n => \A i \in 1 .. n : more[i] = list[i])
    BY <2>2 DEF Selection
  <2> HIDE DEF more, q
  <2>5. \A i \in 1 .. Len(more) : q[i] \in kept /\ more[i] = list[q[i]]
    BY <1>2, <2>1, <2>2, <2>3
  <2>6. \A i, j \in 1 .. Len(more) : i < j => q[i] < q[j]
    BY <2>1, <2>2, <2>3
  <2>7. ASSUME NEW k \in 1 .. n, k \in kept
        PROVE  \E i \in 1 .. Len(more) : q[i] = k
    <3>1. CASE k = n
      BY <2>2, <2>3, <3>1
    <3>2. CASE k # n
      <4>1. PICK i \in 1 .. Len(sel) : p[i] = k
        BY <2>1, <2>7, <3>2
      <4>2. i \in 1 .. Len(more) /\ q[i] = k
        BY <2>2, <2>3, <4>1
      <4>3. QED  BY <4>2
    <3>3. QED  BY <3>1, <3>2
  <2>8. Selection(more, list, kept, n)
    <3>1. q \in [1 .. Len(more) -> 1 .. n]
      BY <2>2, <2>3
    <3>2. QED  BY <2>4, <2>5, <2>6, <2>7, <3>1 DEF Selection
  <2>9. QED  BY <1>2, <2>2, <2>8 DEF more
<1>3. QED  BY <1>1, <1>2

\* LEMMA.  Select leaves the elements at the places in kept, in their order, and
\* each of them once; as many as there were only if they are the same.
LEMMA SelectProperties ==
  ASSUME NEW S, NEW list \in Seq(S), NEW kept
  PROVE  Select(list, kept) \in Seq(S) /\ Selection(Select(list, kept), list, kept, Len(list))
<1>1. PICK f : /\ f[0] = <<>>
               /\ \A n \in 1 .. Len(list) :
                     f[n] = IF n \in kept THEN Append(f[n - 1], list[n]) ELSE f[n - 1]
               /\ Select(list, kept) = f[Len(list)]
  BY SelectIs
<1> DEFINE Good == {n \in Nat : f[n] \in Seq(S) /\ Selection(f[n], list, kept, n)}
<1>2. 0 \in Good
  <2> DEFINE p == [i \in 1 .. 0 |-> i]
  <2>1. Len(<<>>) = 0 /\ <<>> \in Seq(S) /\ p \in [1 .. 0 -> 1 .. 0]
    OBVIOUS
  <2>2. ASSUME NEW sel, Len(sel) = 0
        PROVE  Selection(sel, list, kept, 0)
    <3> HIDE DEF p
    <3>1. p \in [1 .. Len(sel) -> 1 .. 0]
      BY <2>1, <2>2
    <3>2. /\ \A i \in 1 .. Len(sel) : p[i] \in kept /\ sel[i] = list[p[i]]
          /\ \A i, j \in 1 .. Len(sel) : i < j => p[i] < p[j]
          /\ \A k \in 1 .. 0 : k \in kept => \E i \in 1 .. Len(sel) : p[i] = k
      BY <2>2
    <3>3. Len(sel) <= 0 /\ \A i \in 1 .. 0 : sel[i] = list[i]
      BY <2>2
    <3>4. QED  BY <3>1, <3>2, <3>3 DEF Selection
  <2>3. QED  BY <1>1, <2>1, <2>2
<1>3. ASSUME NEW n \in 1 .. Len(list), n - 1 \in Good
      PROVE  n \in Good
  <2>1. f[n - 1] \in Seq(S) /\ Selection(f[n - 1], list, kept, n - 1)
    BY <1>3
  <2>2. f[n] = IF n \in kept THEN Append(f[n - 1], list[n]) ELSE f[n - 1]
    BY <1>1
  <2>3. f[n] \in Seq(S) /\ Selection(f[n], list, kept, n)
    BY <2>1, <2>2, SelectionGrows
  <2>4. QED  BY <2>3
<1>4. Len(list) \in Good
  <2> HIDE DEF Good
  <2>1. Len(list) \in Nat
    OBVIOUS
  <2>2. QED  BY <1>2, <1>3, <2>1, UpToInduction
<1>5. QED  BY <1>1, <1>4

-------------------------------------------------------------------------------
(* The list of stations                                                    *)

Names == {r.name : r \in Replies}
Station == [channel : Channels, name : Names, lookups : 0 .. MAX_LOOKUPS - 1]

\* One station to a channel, and names descend.
InOrder(list) ==
  \A i, j \in DOMAIN list : i < j =>
    list[i].channel # list[j].channel /\ list[i].name >= list[j].name

Has(list, ch) == \E i \in DOMAIN list : list[i].channel = ch

\* LEMMA.  Selecting keeps the order.
LEMMA SelectKeepsOrder ==
  ASSUME NEW S, NEW list \in Seq(S), InOrder(list), NEW kept
  PROVE  InOrder(Select(list, kept))
<1> DEFINE sel == Select(list, kept)
<1>1. sel \in Seq(S) /\ Selection(sel, list, kept, Len(list))
  BY SelectProperties
<1> HIDE DEF sel
<1>2. PICK p \in [1 .. Len(sel) -> 1 .. Len(list)] :
         /\ \A i \in 1 .. Len(sel) : p[i] \in kept /\ sel[i] = list[p[i]]
         /\ \A i, j \in 1 .. Len(sel) : i < j => p[i] < p[j]
  BY <1>1 DEF Selection
<1>3. DOMAIN sel = 1 .. Len(sel) /\ DOMAIN list = 1 .. Len(list)
  BY <1>1
<1>4. InOrder(sel)
  BY <1>2, <1>3 DEF InOrder
<1>5. QED  BY <1>4 DEF sel

\* LEMMA.  removeStation takes the station of that channel out, and only that.
LEMMA RemoveFacts ==
  ASSUME NEW list \in Seq(Station), InOrder(list), NEW r \in Replies
  PROVE  LET removed == removeStation(list, r)
         IN  /\ removed \in Seq(Station) /\ InOrder(removed)
             /\ ~Has(removed, r.channel)
             /\ \A ch : ch # r.channel /\ Has(list, ch) => Has(removed, ch)
<1> DEFINE kept == {i \in DOMAIN list : list[i].channel # r.channel}
<1> DEFINE sel == Select(list, kept)
<1>1. removeStation(list, r) = sel
  BY DEF removeStation
<1>2. sel \in Seq(Station) /\ Selection(sel, list, kept, Len(list)) /\ InOrder(sel)
  <2> HIDE DEF kept
  <2>1. QED  BY SelectProperties, SelectKeepsOrder
<1> HIDE DEF sel
<1>3. PICK p \in [1 .. Len(sel) -> 1 .. Len(list)] :
         /\ \A i \in 1 .. Len(sel) : p[i] \in kept /\ sel[i] = list[p[i]]
         /\ \A k \in 1 .. Len(list) : k \in kept => \E i \in 1 .. Len(sel) : p[i] = k
  BY <1>2 DEF Selection
<1>4. DOMAIN sel = 1 .. Len(sel) /\ DOMAIN list = 1 .. Len(list)
  BY <1>2
<1>5. ~Has(sel, r.channel)
  BY <1>3, <1>4 DEF Has
<1>6. ASSUME NEW ch, ch # r.channel, Has(list, ch)
      PROVE  Has(sel, ch)
  <2>1. PICK k \in 1 .. Len(list) : list[k].channel = ch
    BY <1>4, <1>6 DEF Has
  <2>2. PICK i \in 1 .. Len(sel) : p[i] = k
    BY <1>3, <1>4, <1>6, <2>1
  <2>3. QED  BY <1>3, <1>4, <2>1, <2>2 DEF Has
<1>7. QED  BY <1>1, <1>2, <1>5, <1>6

\* LEMMA.  There is a place to insert a station.
LEMMA WhereFacts ==
  ASSUME NEW list \in Seq(Station), NEW r \in Replies
  PROVE  LET w == where_to_insert(list, r)
         IN  /\ w \in 1 .. Len(list) + 1
             /\ w <= Len(list) => r.name > list[w].name
             /\ \A j \in 1 .. w - 1 : ~(r.name > list[j].name)
<1> DEFINE Place(i) == i = Len(list) + 1 \/ (i <= Len(list) /\ r.name > list[i].name)
<1> DEFINE Places == {i \in 1 .. Len(list) + 1 : Place(i)}
<1>1. Places \subseteq Nat /\ Len(list) + 1 \in Places
  OBVIOUS
<1>2. PICK w \in Places : \A j \in Places : w <= j
  <2> HIDE DEF Places
  <2>1. QED  BY <1>1, Smallest
<1>3. /\ w \in 1 .. Len(list) + 1
      /\ w <= Len(list) => r.name > list[w].name
  OBVIOUS
<1>4. \A j \in 1 .. w - 1 : ~(r.name > list[j].name)
  <2> SUFFICES ASSUME NEW j \in 1 .. w - 1, r.name > list[j].name PROVE FALSE
    OBVIOUS
  <2>1. j \in Places
    BY <1>3
  <2>2. QED  BY <1>2, <1>3, <2>1
<1> HIDE DEF Places
<1>5. QED  BY <1>3, <1>4 DEF where_to_insert

\* LEMMA.  insertStation keeps the order and all that is in the list.
LEMMA InsertFacts ==
  ASSUME NEW list \in Seq(Station), InOrder(list), NEW r \in Replies,
         ~Has(list, r.channel)
  PROVE  LET more == insertStation(list, r)
         IN  /\ more \in Seq(Station) /\ InOrder(more)
             /\ Len(more) = Len(list) + 1 /\ more # <<>>
             /\ Has(more, r.channel)
             /\ \A ch : Has(list, ch) => Has(more, ch)
<1> DEFINE w == where_to_insert(list, r)
           s == [channel |-> r.channel, name |-> r.name, lookups |-> 0]
           more == insertStation(list, r)
<1>1. /\ w \in 1 .. Len(list) + 1
      /\ w <= Len(list) => r.name > list[w].name
      /\ \A j \in 1 .. w - 1 : ~(r.name > list[j].name)
  BY WhereFacts
<1>2. s \in Station
  BY BoundsAssumption DEF Station, Channels, Names
<1>3. more = SubSeq(list, 1, w - 1) \o <<s>> \o SubSeq(list, w, Len(list))
  BY DEF insertStation
<1> HIDE DEF w, s, more
<1>4. /\ more \in Seq(Station) /\ Len(more) = Len(list) + 1
      /\ \A i \in 1 .. w - 1 : more[i] = list[i]
      /\ more[w] = s
      /\ \A i \in w + 1 .. Len(list) + 1 : more[i] = list[i - 1]
  <2> DEFINE front == SubSeq(list, 1, w - 1)
             back == SubSeq(list, w, Len(list))
  <2>1. /\ front \in Seq(Station) /\ Len(front) = w - 1
        /\ \A i \in 1 .. w - 1 : front[i] = list[i]
    BY <1>1
  <2>2. /\ back \in Seq(Station) /\ Len(back) = Len(list) - w + 1
        /\ \A i \in 1 .. Len(list) - w + 1 : back[i] = list[i + w - 1]
    BY <1>1
  <2>3. more = front \o <<s>> \o back
    BY <1>3
  <2> HIDE DEF front, back
  <2>4. /\ more \in Seq(Station) /\ Len(more) = Len(list) + 1
        /\ \A i \in 1 .. w - 1 : more[i] = front[i]
        /\ more[w] = s
        /\ \A i \in w + 1 .. Len(list) + 1 : more[i] = back[i - w]
    <3> DEFINE upto == front \o <<s>>
    <3>1. /\ upto \in Seq(Station) /\ Len(upto) = w /\ upto[w] = s
          /\ \A i \in 1 .. w - 1 : upto[i] = front[i]
      BY <1>1, <1>2, <2>1
    <3>2. more = upto \o back
      BY <2>3
    <3> HIDE DEF upto
    <3>3. more \in Seq(Station) /\ Len(more) = Len(list) + 1
      <4>1. more \in Seq(Station) /\ Len(more) = Len(upto) + Len(back)
        BY <2>2, <3>1, <3>2, ConcatProperties
      <4>2. w + (Len(list) - w + 1) = Len(list) + 1
        BY <1>1
      <4>3. QED  BY <2>2, <3>1, <4>1, <4>2
    <3>4. \A i \in 1 .. w : more[i] = upto[i]
      BY <1>1, <2>2, <3>1, <3>2
    <3>5. ASSUME NEW i \in w + 1 .. Len(list) + 1
          PROVE  more[i] = back[i - w]
      <4>1. i \in Len(upto) + 1 .. Len(upto) + Len(back)
        BY <1>1, <2>2, <3>1
      <4>2. more[i] = back[i - Len(upto)]
        BY <1>1, <2>2, <3>1, <3>2, <4>1
      <4>3. QED  BY <3>1, <4>2
    <3>6. QED  BY <1>1, <3>1, <3>3, <3>4, <3>5
  <2>5. ASSUME NEW i \in w + 1 .. Len(list) + 1
        PROVE  more[i] = list[i - 1]
    <3>1. i - w \in 1 .. Len(list) - w + 1 /\ i - w + w - 1 = i - 1
      BY <1>1
    <3>2. QED  BY <2>2, <2>4, <3>1
  <2>6. QED  BY <2>1, <2>4, <2>5
<1>5. DOMAIN more = 1 .. Len(list) + 1 /\ DOMAIN list = 1 .. Len(list)
  BY <1>4
<1>6. /\ \A i \in 1 .. Len(list) : list[i].name \in Nat
      /\ r.name \in Nat /\ s.name = r.name /\ s.channel = r.channel
  <2>1. s.name = r.name /\ s.channel = r.channel
    BY DEF s
  <2>2. \A n \in Names : n \in Nat
    BY RepliesAssumption DEF Names
  <2>3. \A i \in 1 .. Len(list) : list[i].name \in Names
    <3>1. \A i \in 1 .. Len(list) : list[i] \in Station
      OBVIOUS
    <3>2. QED  BY <3>1 DEF Station
  <2>4. QED  BY RepliesAssumption, <2>1, <2>2, <2>3
<1>7. InOrder(more)
  <2> SUFFICES ASSUME NEW i \in 1 .. Len(list) + 1, NEW j \in 1 .. Len(list) + 1, i < j
               PROVE  more[i].channel # more[j].channel /\ more[i].name >= more[j].name
    BY <1>5 DEF InOrder
  <2>1. \A k, l \in 1 .. Len(list) : k < l =>
          list[k].channel # list[l].channel /\ list[k].name >= list[l].name
    BY <1>5 DEF InOrder
  <2>2. \A k \in 1 .. Len(list) : list[k].channel # r.channel
    BY <1>5 DEF Has
  <2>3. CASE i < w /\ j < w
    <3>1. /\ i \in 1 .. Len(list) /\ j \in 1 .. Len(list)
          /\ more[i] = list[i] /\ more[j] = list[j]
      BY <1>1, <1>4, <2>3
    <3>2. QED  BY <2>1, <3>1
  <2>4. CASE i < w /\ j = w
    BY <1>1, <1>4, <1>6, <2>2, <2>4
  <2>5. CASE i < w /\ j > w
    <3>1. /\ i \in 1 .. Len(list) /\ j - 1 \in 1 .. Len(list) /\ i < j - 1
          /\ more[i] = list[i] /\ more[j] = list[j - 1]
      BY <1>1, <1>4, <2>5
    <3>2. QED  BY <2>1, <3>1
  <2>6. CASE i = w
    <3>1. j - 1 \in 1 .. Len(list) /\ more[j] = list[j - 1] /\ more[i] = s /\ w <= Len(list)
      BY <1>1, <1>4, <2>6
    <3>2. list[w].name >= list[j - 1].name
      BY <1>1, <1>6, <2>1, <2>6, <3>1
    <3>3. list[j - 1].name \in Nat /\ list[w].name \in Nat /\ r.name \in Nat /\ s.name = r.name
      BY <1>1, <1>6, <3>1
    <3>4. s.channel # list[j - 1].channel
      BY <1>6, <2>2, <3>1
    <3>5. r.name >= list[w].name
      BY <1>1, <1>6, <3>1
    <3>6. s.name >= list[j - 1].name
      BY ONLY <3>2, <3>3, <3>5
    <3>7. QED  BY ONLY <3>1, <3>4, <3>6
  <2>7. CASE i > w
    <3>1. /\ i - 1 \in 1 .. Len(list) /\ j - 1 \in 1 .. Len(list) /\ i - 1 < j - 1
          /\ more[i] = list[i - 1] /\ more[j] = list[j - 1]
      BY <1>1, <1>4, <2>7
    <3>2. QED  BY <2>1, <3>1
  <2>8. QED  BY <1>1, <2>3, <2>4, <2>5, <2>6, <2>7
<1>8. Has(more, r.channel)
  BY <1>1, <1>4, <1>5, <1>6 DEF Has
<1>9. ASSUME NEW ch, Has(list, ch)
      PROVE  Has(more, ch)
  <2>1. PICK i \in 1 .. Len(list) : list[i].channel = ch
    BY <1>5, <1>9 DEF Has
  <2>2. CASE i < w
    BY <1>1, <1>4, <1>5, <2>1, <2>2 DEF Has
  <2>3. CASE i >= w
    <3>1. i + 1 \in 1 .. Len(list) + 1 /\ more[i + 1] = list[i]
      BY <1>1, <1>4, <2>3
    <3>2. QED  BY <1>5, <2>1, <3>1 DEF Has
  <2>4. QED  BY <1>1, <2>2, <2>3
<1>10. QED  BY <1>4, <1>7, <1>8, <1>9 DEF more

\* LEMMA.  After a LOOKUP the list is of stations that had less than MAX_LOOKUPS of
\* them, in their order; when none is gone, they are the same.
LEMMA LookupFacts ==
  ASSUME stations \in Seq(Station), InOrder(stations)
  PROVE  LET left == Select(LookedUp,
                            {i \in DOMAIN LookedUp : LookedUp[i].lookups < MAX_LOOKUPS})
         IN  /\ left \in Seq(Station) /\ InOrder(left)
             /\ Len(left) <= Len(stations)
             /\ Len(left) = Len(stations) =>
                  \A i \in 1 .. Len(stations) : /\ left[i].channel = stations[i].channel
                                                /\ left[i].name = stations[i].name
<1> DEFINE Counted == [channel : Channels, name : Names, lookups : Nat]
           kept == {i \in DOMAIN LookedUp : LookedUp[i].lookups < MAX_LOOKUPS}
           left == Select(LookedUp, kept)
<1>1. \A i \in 1 .. Len(stations) : stations[i] \in Station
  OBVIOUS
<1>2. /\ DOMAIN LookedUp = 1 .. Len(stations) /\ DOMAIN stations = 1 .. Len(stations)
      /\ \A i \in 1 .. Len(stations) :
           LookedUp[i] = [stations[i] EXCEPT !.lookups = stations[i].lookups + 1]
  BY DEF LookedUp
<1>3. ASSUME NEW i \in 1 .. Len(stations)
      PROVE  /\ LookedUp[i] \in Counted
             /\ LookedUp[i].channel = stations[i].channel
             /\ LookedUp[i].name = stations[i].name
  BY <1>1, <1>2, BoundsAssumption DEF Station
<1>4. LookedUp \in Seq(Counted) /\ Len(LookedUp) = Len(stations)
  <2>1. LookedUp = [i \in 1 .. Len(stations) |-> LookedUp[i]]
    BY <1>2, Zenon DEF LookedUp
  <2> HIDE DEF Counted
  <2>2. LookedUp \in [1 .. Len(stations) -> Counted] /\ Len(stations) \in Nat
    BY <1>3, <2>1
  <2>3. QED  BY <1>2, <2>2
<1>5. InOrder(LookedUp)
  BY <1>2, <1>3 DEF InOrder
<1>6. left \in Seq(Counted) /\ Selection(left, LookedUp, kept, Len(stations)) /\ InOrder(left)
  <2> HIDE DEF kept, Counted
  <2>1. QED  BY <1>4, <1>5, SelectProperties, SelectKeepsOrder
<1> HIDE DEF left
<1>7. PICK p \in [1 .. Len(left) -> 1 .. Len(stations)] :
         \A i \in 1 .. Len(left) : p[i] \in kept /\ left[i] = LookedUp[p[i]]
  BY <1>6 DEF Selection
<1>8. left \in Seq(Station)
  <2>1. ASSUME NEW i \in 1 .. Len(left)
        PROVE  left[i] \in Station
    <3>1. left[i] \in Counted /\ left[i].lookups < MAX_LOOKUPS
      BY <1>3, <1>7
    <3>2. QED  BY <3>1, BoundsAssumption DEF Station
  <2>2. left \in [1 .. Len(left) -> Station]
    BY <1>6, <2>1
  <2>3. Len(left) \in Nat
    BY <1>6
  <2>4. QED  BY <2>2, <2>3
<1>9. ASSUME Len(left) = Len(stations), NEW i \in 1 .. Len(stations)
      PROVE  left[i].channel = stations[i].channel /\ left[i].name = stations[i].name
  BY <1>3, <1>6, <1>9 DEF Selection
<1>10. QED  BY <1>6, <1>8, <1>9 DEF Selection, left

-------------------------------------------------------------------------------
(* The invariant                                                           *)

Events == {"menu", "channel", "up", "down"}

DiscovererStates == {"idle", "change", "changed", "gone", "menu", "set", "index", "post"}

\* The event loop between two events, when it is not sending; ...
WaitStates == {"read", "tested", "asleep", "join", "write"}

\* ... and with a key, which it ends with sending.
KeyStates == {"key", "move", "enter", "change", "changed", "reference"}

\* The lists of stations and options, and the locks.
StateInv ==
  /\ stations \in Seq(Station)
  /\ InOrder(stations)
  /\ listing \in [options : Seq(Option), active : Int]
  /\ menu \in {"null", "listing", "freed"}
  /\ events \in Seq(Events)
  /\ discoverer \in DiscovererStates
  /\ loop \in KeyStates \cup WaitStates \cup {"send"}
  /\ seen \in Int
  /\ key \in {"up", "down"}
  /\ undefined \in {"no", "freed listing", "no such option"}
  /\ keys \in Nat

\* When the discoverer is through with the options, radio_menu is the listing, and
\* it has the stations of the list; it is a freed one only before it is set.
MenuInv ==
  /\ menu = "freed" => discoverer = "set"
  /\ discoverer \in {"set", "index"} => stations # <<>> /\ listing.options = Options
  /\ discoverer = "index" => menu = "listing"
  /\ discoverer \in {"post", "idle"} =>
       IF stations = <<>> THEN menu = "null"
       ELSE menu = "listing" /\ listing.options = Options

\* When the menu sent last is not the menu, someone is still to see to it: setNewMenu
\* has not posted its event, the event is not read, or the event loop has not sent.
SentInv ==
  \/ shown = MenuToString
  \/ discoverer \in {"set", "index", "post"}
  \/ \E i \in DOMAIN events : events[i] = "menu"
  \/ loop \in KeyStates \cup {"send"}

\* Without keys, the current channel is that of a listed station, but while the
\* discoverer is about to change it; and the marked option is its when the
\* discoverer has set it.
MarkInv ==
  keys = 0 =>
    /\ \A i \in DOMAIN events : events[i] \in {"menu", "channel"}
    /\ loop \in WaitStates \cup {"send"}
    /\ discoverer = "change" => Listed(reply)
    /\ discoverer \notin {"change", "gone"} =>
         IF stations = <<>> THEN current_channel = NoChannel ELSE Listed(current_channel)
    /\ discoverer \in {"idle", "post"} /\ stations # <<>> =>
         /\ listing.active \in 0 .. Len(stations) - 1
         /\ stations[listing.active + 1].channel = current_channel

\* The inductive invariant.
IInv == StateInv /\ MenuInv /\ SentInv /\ MarkInv

LEMMA InitInv == Init => IInv
<1> SUFFICES ASSUME Init PROVE IInv
  OBVIOUS
<1>1. StateInv
  BY DEF Init, StateInv, InOrder, DiscovererStates, WaitStates
<1>2. MenuInv
  BY DEF Init, MenuInv
<1>3. SentInv
  BY DEF Init, SentInv, MenuToString
<1>4. MarkInv
  BY DEF Init, MarkInv, WaitStates
<1>5. QED  BY <1>1, <1>2, <1>3, <1>4 DEF IInv

-------------------------------------------------------------------------------
(* Steps                                                                   *)

\* LEMMA.  What a reply makes of the list.
LEMMA ReplyFacts ==
  ASSUME StateInv, NEW r \in Replies, handleReply(r)
  PROVE  /\ stations' \in Seq(Station) /\ InOrder(stations') /\ stations' # <<>>
         /\ Has(stations', r.channel)
         /\ \A ch : Has(stations, ch) => Has(stations', ch)
<1> DEFINE removed == removeStation(stations, r)
<1>1. /\ removed \in Seq(Station) /\ InOrder(removed)
      /\ ~Has(removed, r.channel)
      /\ \A ch : ch # r.channel /\ Has(stations, ch) => Has(removed, ch)
  BY RemoveFacts DEF StateInv
<1>2. stations' = insertStation(removed, r)
  BY DEF handleReply
<1> HIDE DEF removed
<1>3. /\ stations' \in Seq(Station) /\ InOrder(stations') /\ stations' # <<>>
      /\ Has(stations', r.channel)
      /\ \A ch : Has(removed, ch) => Has(stations', ch)
  BY <1>1, <1>2, InsertFacts
<1>4. QED  BY <1>1, <1>3

\* LEMMA.  The first station is alone in the list.
LEMMA FirstStation ==
  ASSUME stations = <<>>, NEW r \in Replies, handleReply(r)
  PROVE  Len(stations') = 1
<1> DEFINE kept == {i \in DOMAIN stations : stations[i].channel # r.channel}
           removed == Select(stations, kept)
<1>1. stations \in Seq(Station) /\ Len(stations) = 0
  OBVIOUS
<1>2. removed \in Seq(Station) /\ Selection(removed, stations, kept, Len(stations))
  <2> HIDE DEF kept
  <2>1. QED  BY <1>1, SelectProperties
<1> HIDE DEF removed
<1>3. Len(removed) = 0
  BY <1>1, <1>2 DEF Selection
<1>4. InOrder(removed) /\ ~Has(removed, r.channel)
  BY <1>2, <1>3 DEF InOrder, Has
<1>5. stations' = insertStation(removed, r)
  BY DEF handleReply, removeStation, removed
<1>6. Len(insertStation(removed, r)) = Len(removed) + 1
  BY <1>2, <1>4, InsertFacts
<1>7. QED  BY <1>3, <1>5, <1>6

\* LEMMA.  The options made of a list of stations.
LEMMA OptionsFacts ==
  ASSUME stations \in Seq(Station)
  PROVE  /\ Options \in Seq(Option) /\ Len(Options) = Len(stations)
         /\ \A i \in 1 .. Len(stations) : /\ Options[i].channel = stations[i].channel
                                         /\ Options[i].name = stations[i].name
<1>1. \A i \in 1 .. Len(stations) : stations[i] \in Station
  OBVIOUS
<1>2. DOMAIN stations = 1 .. Len(stations) /\ Len(stations) \in Nat
  OBVIOUS
<1>3. \A i \in 1 .. Len(stations) :
        [channel |-> stations[i].channel, name |-> stations[i].name] \in Option
  BY <1>1 DEF Station, Option, Names
<1>4. Options \in [1 .. Len(stations) -> Option]
  BY <1>2, <1>3 DEF Options
<1>5. QED  BY <1>2, <1>4 DEF Options

\* LEMMA.  The active index setNewMenu sets is that of an option; of one with the
\* current channel, if a station has it.
LEMMA IndexFacts ==
  ASSUME stations \in Seq(Station), stations # <<>>, InOrder(stations)
  PROVE  /\ current_index \in 0 .. Len(stations) - 1
         /\ Listed(current_channel) => stations[current_index + 1].channel = current_channel
<1> DEFINE Current == {i \in DOMAIN stations : stations[i].channel = current_channel}
<1>1. DOMAIN stations = 1 .. Len(stations) /\ Len(stations) \in Nat \ {0}
  OBVIOUS
<1>2. CASE Current = {}
  BY <1>1, <1>2 DEF current_index, Listed
<1>3. CASE Current # {}
  <2>1. PICK k \in 1 .. Len(stations) : stations[k].channel = current_channel
    BY <1>1, <1>3
  <2>2. \A j \in Current : j = k
    BY <1>1, <2>1 DEF InOrder
  <2>3. k \in Current /\ \A j \in Current : j <= k
    BY <1>1, <2>1, <2>2
  <2>4. (CHOOSE i \in Current : \A j \in Current : j <= i) \in Current
    BY <2>3
  <2>5. current_index = k - 1
    BY <1>3, <2>2, <2>4 DEF current_index
  <2>6. QED  BY <2>1, <2>5
<1>4. QED  BY <1>2, <1>3

\* The steps between two events, and the listener's.
Elsewhere ==
  /\ UNCHANGED <<stations, discoverer, reply, key, seen, shown, undefined, events, listing,
                 menu, current_channel, keys>>
  /\ \/ loop' = loop
     \/ loop \in WaitStates /\ loop' \in {"read", "tested", "asleep"}

\* LEMMA.  A step is one of these.
LEMMA Steps ==
  ASSUME [Next]_vars
  PROVE  \/ \E r \in Replies : handleReply(r)
         \/ \E r \in Replies : ignoreReply(r)
         \/ sendLookup \/ changeToReply \/ postReplyChange \/ replaceGone
         \/ setNoMenu \/ replaceListing \/ setListing \/ setIndex \/ postMenuChange
         \/ \E k \in {"up", "down"} : pressKey(k)
         \/ readEvent \/ testIndex \/ moveIndex \/ enter \/ changeChannel \/ postKeyChange
         \/ noReference \/ sendMenu
         \/ Elsewhere
<1>1. CASE UNCHANGED vars
  BY <1>1 DEF vars, discovererVars, OthersVars, handlerVars, streamVars, menuVars, Elsewhere
<1>2. CASE \/ seesNothing \/ fallsAsleep \/ wakesUp \/ menuWritten \/ replaceListener
           \/ listenerStart \/ listenerEnds \/ listenerFails
  BY <1>2 DEF seesNothing, fallsAsleep, wakesUp, menuWritten, replaceListener, listenerStart,
     listenerEnds, listenerFails, discovererVars, handlerVars, streamVars, menuVars,
     WaitStates, Elsewhere
<1>3. QED
  BY <1>1, <1>2 DEF Next, DiscovererGoesOn, setNewMenu, LoopGoesOn, ListenerGoesOn, Step

Appends(event) == events' = Append(events, event)

\* LEMMA.  What a step does to the event stream.
LEMMA EventsFacts ==
  ASSUME [Next]_vars
  PROVE  \/ events' = events
         \/ readEvent
         \/ Appends("menu") \/ Appends("channel")
         \/ \E k \in {"up", "down"} : pressKey(k) /\ Appends(k)
<1> USE DEF OthersVars, discovererVars, handlerVars, streamVars, menuVars, RunsInto,
OnlyLoop, Appends
<1>1. CASE postReplyChange \/ replaceGone \/ postMenuChange \/ postKeyChange
  BY <1>1 DEF postReplyChange, replaceGone, postMenuChange, postKeyChange, write
<1>2. ASSUME NEW k \in {"up", "down"}, pressKey(k)
      PROVE  Appends(k)
  BY <1>2 DEF pressKey, write
<1>3. QED
  BY <1>1, <1>2, Steps DEF handleReply, ignoreReply, sendLookup, changeToReply, setNoMenu,
     replaceListing, setListing, setIndex, testIndex, moveIndex, enter, changeChannel,
     noReference, sendMenu, Elsewhere

LEMMA StateStep ==
  ASSUME StateInv, MenuInv, [Next]_vars
  PROVE  StateInv'
<1> USE DEF Begins, OthersVars, discovererVars, handlerVars, streamVars, menuVars, RunsInto,
            OnlyLoop, AfterKey, KeyStates
<1>1. (stations \in Seq(Station))' /\ InOrder(stations)'
  <2>1. ASSUME NEW r \in Replies, handleReply(r)
        PROVE  (stations \in Seq(Station))' /\ InOrder(stations)'
    BY <2>1, ReplyFacts
  <2>2. CASE sendLookup
    BY <2>2, LookupFacts DEF sendLookup, StateInv
  <2>3. ASSUME ~sendLookup, ~\E r \in Replies : handleReply(r)
        PROVE  stations' = stations
    BY <2>3, Steps DEF ignoreReply, changeToReply, postReplyChange, replaceGone, setNoMenu,
       replaceListing, setListing, setIndex, postMenuChange, pressKey, readEvent,
       testIndex, moveIndex, enter, changeChannel, postKeyChange, noReference, sendMenu,
       Elsewhere
  <2>4. QED  BY <2>1, <2>2, <2>3 DEF StateInv
<1>2. (listing \in [options : Seq(Option), active : Int])'
  <2>0. listing \in [options : Seq(Option), active : Int]
    BY DEF StateInv
  <2>1. CASE replaceListing
    <3>1. Options \in Seq(Option) /\ listing' = [options |-> Options, active |-> 0]
      BY <2>1, OptionsFacts DEF replaceListing, StateInv
    <3>2. QED  BY ONLY <3>1
  <2>2. CASE setIndex
    <3>1. listing' = [listing EXCEPT !.active = current_index]
      BY <2>2 DEF setIndex
    <3>2. stations # <<>> /\ stations \in Seq(Station) /\ InOrder(stations)
      BY <2>2 DEF setIndex, StateInv, MenuInv
    <3>3. current_index \in Int
      BY <3>2, IndexFacts
    <3>4. QED  BY ONLY <2>0, <3>1, <3>3
  <2>3. CASE moveIndex
    <3>1. CASE listing' = listing
      BY <2>0, <3>1
    <3>2. CASE listing' # listing
      <4>1. PICK i \in {seen, listing.active} :
              listing' = [listing EXCEPT !.active = i + Step[key]]
        BY <2>3, <3>2 DEF moveIndex
      <4>2. seen \in Int /\ listing.active \in Int /\ key \in {"up", "down"}
        BY <2>0 DEF StateInv
      <4>3. i + Step[key] \in Int
        BY ONLY <4>1, <4>2 DEF Step
      <4>4. QED  BY ONLY <2>0, <4>1, <4>3
    <3>3. QED  BY <3>1, <3>2
  <2>4. ASSUME ~replaceListing, ~setIndex, ~moveIndex
        PROVE  listing' = listing
    BY <2>4, Steps DEF handleReply, ignoreReply, sendLookup, changeToReply, postReplyChange,
       replaceGone, setNoMenu, setListing, postMenuChange, pressKey, readEvent, testIndex,
       enter, changeChannel, postKeyChange, noReference, sendMenu, Elsewhere
  <2>5. QED  BY <2>1, <2>2, <2>3, <2>4 DEF StateInv
<1>3. (events \in Seq(Events))'
  <2>0. events \in Seq(Events)
    BY DEF StateInv
  <2>1. ASSUME NEW e \in Events, Appends(e)
        PROVE  (events \in Seq(Events))'
    <3>1. events' = Append(events, e)
      BY <2>1 DEF Appends
    <3>2. QED  BY ONLY <2>0, <3>1, e \in Events
  <2>2. CASE readEvent
    <3>1. events # <<>> /\ events' = Tail(events)
      BY <2>2 DEF readEvent
    <3>2. QED  BY ONLY <2>0, <3>1
  <2>3. \A k \in {"up", "down", "menu", "channel"} : k \in Events
    BY DEF Events
  <2>4. QED  BY <2>0, <2>1, <2>2, <2>3, EventsFacts
<1>4. (key \in {"up", "down"})'
  <2>1. CASE readEvent
    <3>1. Head(events) \in Events
      <4>1. events \in Seq(Events) /\ events # <<>>
        BY <2>1 DEF readEvent, StateInv
      <4>2. QED  BY ONLY <4>1
    <3>2. QED  BY <2>1, <3>1 DEF readEvent, Events, StateInv
  <2>2. CASE ~readEvent
    BY <2>2, Steps DEF handleReply, ignoreReply, sendLookup, changeToReply, postReplyChange,
       replaceGone, setNoMenu, replaceListing, setListing, setIndex, postMenuChange,
       pressKey, testIndex, moveIndex, enter, changeChannel, postKeyChange, noReference,
       sendMenu, Elsewhere, StateInv
  <2>3. QED  BY <2>1, <2>2
<1> USE DEF handleReply, ignoreReply, sendLookup, AfterLookup, changeToReply,
       postReplyChange, replaceGone, setNoMenu, replaceListing, setListing, setIndex,
       postMenuChange, pressKey, readEvent, testIndex, moveIndex, enter, changeChannel,
       postKeyChange, noReference, sendMenu, Elsewhere
<1>5. (menu \in {"null", "listing", "freed"})'
  BY Steps DEF StateInv
<1>6. (discoverer \in DiscovererStates)'
  BY Steps DEF StateInv, DiscovererStates
<1>7. (loop \in KeyStates \cup WaitStates \cup {"send"})'
  BY Steps DEF StateInv, write, WaitStates
<1>8. (seen \in Int)'
  <2>1. CASE testIndex
    <3>1. seen' \in {seen, listing.active}
      BY <2>1
    <3>2. QED  BY <3>1 DEF StateInv
  <2>2. CASE ~testIndex
    <3>1. seen' \in {seen, 0}
      BY <2>2, Steps
    <3>2. seen \in Int
      BY DEF StateInv
    <3>3. QED  BY ONLY <3>1, <3>2
  <2>3. QED  BY <2>1, <2>2
<1>9. (undefined \in {"no", "freed listing", "no such option"})'
  BY Steps DEF StateInv
<1>10. (keys \in Nat)'
  <2>1. keys' \in {keys, keys + 1}
    <3>1. (\E k \in {"up", "down"} : pressKey(k)) \/ keys' = keys
      BY Steps
    <3>2. QED  BY <3>1
  <2>2. keys \in Nat
    BY DEF StateInv
  <2>3. QED  BY ONLY <2>1, <2>2
<1>11. QED
  BY <1>1, <1>2, <1>3, <1>4, <1>5, <1>6, <1>7, <1>8, <1>9, <1>10 DEF StateInv

\* LEMMA.  What a LOOKUP leaves, and what is in the list after it.
LEMMA LookupStep ==
  ASSUME StateInv, sendLookup
  PROVE  /\ stations' \in Seq(Station)
         /\ discoverer' \in {"gone", "idle"}
         /\ discoverer' = "idle" =>
              /\ Len(stations') = Len(stations)
              /\ \A i \in 1 .. Len(stations) : /\ stations'[i].channel = stations[i].channel
                                               /\ stations'[i].name = stations[i].name
<1>1. stations \in Seq(Station) /\ InOrder(stations)
  BY DEF StateInv
<1>2. /\ stations' \in Seq(Station) /\ Len(stations') <= Len(stations)
      /\ Len(stations') = Len(stations) =>
           \A i \in 1 .. Len(stations) : /\ stations'[i].channel = stations[i].channel
                                         /\ stations'[i].name = stations[i].name
  BY <1>1, LookupFacts DEF sendLookup
<1>3. discoverer' = IF Len(stations') < Len(stations) THEN "gone" ELSE "idle"
  BY DEF sendLookup, AfterLookup
<1>4. Len(stations') \in Nat /\ Len(stations) \in Nat
  BY <1>1, <1>2
<1>5. QED  BY <1>2, <1>3, <1>4

LEMMA MenuStep ==
  ASSUME StateInv, MenuInv, [Next]_vars
  PROVE  MenuInv'
<1> USE DEF OthersVars, discovererVars, handlerVars, streamVars, menuVars, RunsInto,
OnlyLoop, AfterKey
<1>0. discoverer \in DiscovererStates
  BY DEF StateInv
<1>1. ASSUME NEW r \in Replies, handleReply(r)
      PROVE  MenuInv'
  BY <1>0, <1>1 DEF handleReply, MenuInv, Begins
<1>2. CASE sendLookup
  <2>1. CASE discoverer' = "gone"
    BY <1>0, <1>2, <2>1 DEF sendLookup, MenuInv, Begins
  <2>2. CASE discoverer' = "idle"
    <3>1. /\ stations \in Seq(Station) /\ stations' \in Seq(Station)
          /\ Len(stations') = Len(stations)
          /\ \A i \in 1 .. Len(stations) : /\ stations'[i].channel = stations[i].channel
                                           /\ stations'[i].name = stations[i].name
      BY <1>2, <2>2, LookupStep DEF StateInv
    <3>2. DOMAIN stations' = DOMAIN stations /\ DOMAIN stations = 1 .. Len(stations)
      BY <3>1
    <3>3. Options' = Options
      BY <3>1, <3>2 DEF Options
    <3>4. (stations' = <<>>) <=> (stations = <<>>)
      BY <3>1
    <3>5. menu' = menu /\ listing' = listing /\ discoverer = "idle"
      BY <1>2 DEF sendLookup, Begins
    <3>6. QED  BY <2>2, <3>3, <3>4, <3>5 DEF MenuInv
  <2>3. QED  BY <1>2, <2>1, <2>2, LookupStep
<1>3. CASE changeToReply \/ postReplyChange \/ replaceGone
  BY <1>0, <1>3 DEF changeToReply, postReplyChange, replaceGone, MenuInv
<1>4. CASE setNoMenu
  BY <1>4 DEF setNoMenu, MenuInv
<1>5. CASE replaceListing
  <2>1. Options' = Options
    BY <1>5 DEF replaceListing, Options
  <2>2. QED  BY <1>5, <2>1 DEF replaceListing, MenuInv
<1>6. CASE setListing
  <2>1. Options' = Options
    BY <1>6 DEF setListing, Options
  <2>2. QED  BY <1>6, <2>1 DEF setListing, MenuInv
<1>7. CASE setIndex
  <2>1. Options' = Options
    BY <1>7 DEF setIndex, Options
  <2>2. listing'.options = listing.options
    BY <1>7 DEF setIndex, StateInv
  <2>3. QED  BY <1>7, <2>1, <2>2 DEF setIndex, MenuInv
<1>8. CASE postMenuChange
  <2>1. Options' = Options
    BY <1>8 DEF postMenuChange, Options
  <2>2. QED  BY <1>8, <2>1 DEF postMenuChange, MenuInv
<1>9. CASE moveIndex
  <2>1. Options' = Options
    BY <1>9 DEF moveIndex, Options
  <2>2. listing'.options = listing.options
    BY <1>9 DEF moveIndex, StateInv
  <2>3. stations' = stations /\ discoverer' = discoverer /\ menu' = menu
    BY <1>9 DEF moveIndex
  <2>4. QED  BY <2>1, <2>2, <2>3 DEF MenuInv
<1>10. CASE UNCHANGED <<stations, discoverer, listing, menu>>
  <2>1. Options' = Options
    BY <1>10 DEF Options
  <2>2. QED  BY <1>10, <2>1 DEF MenuInv
<1>11. QED
  BY <1>1, <1>2, <1>3, <1>4, <1>5, <1>6, <1>7, <1>8, <1>9, <1>10, Steps
     DEF ignoreReply, pressKey, readEvent, testIndex, enter, changeChannel, postKeyChange,
         noReference, sendMenu, Elsewhere

LEMMA SentStep ==
  ASSUME StateInv, SentInv, [Next]_vars
  PROVE  SentInv'
<1> USE DEF OthersVars, discovererVars, handlerVars, streamVars, menuVars, RunsInto,
OnlyLoop, AfterKey
<1> DEFINE Pending == \E i \in DOMAIN events : events[i] = "menu"
<1>0. /\ discoverer \in DiscovererStates
      /\ events \in Seq(Events)
  BY DEF StateInv
<1>1. CASE sendMenu
  BY <1>1 DEF sendMenu, SentInv, MenuToString
<1>2. CASE postMenuChange
  <2>1. events' = Append(events, "menu")
    BY <1>2 DEF postMenuChange, write
  <2>2. Pending'
    <3>1. Len(events) + 1 \in DOMAIN events' /\ events'[Len(events) + 1] = "menu"
      BY ONLY <1>0, <2>1
    <3>2. QED  BY <3>1
  <2>3. QED  BY <2>2 DEF SentInv
<1>3. CASE replaceListing \/ setListing \/ setIndex \/ setNoMenu
  BY <1>3 DEF replaceListing, setListing, setIndex, setNoMenu, SentInv
<1>4. CASE testIndex \/ moveIndex \/ enter \/ changeChannel \/ postKeyChange \/ noReference
  <2>1. loop' \in KeyStates \cup {"send"}
    BY <1>4 DEF testIndex, moveIndex, enter, changeChannel, postKeyChange, noReference,
       KeyStates
  <2>2. QED  BY <2>1 DEF SentInv
\* What adds an event takes none away.
<1>5. ASSUME NEW e \in Events, Appends(e), Pending
      PROVE  Pending'
  <2>1. events' = Append(events, e)
    BY <1>5 DEF Appends
  <2>2. \A i \in DOMAIN events : i \in DOMAIN events' /\ events'[i] = events[i]
    BY ONLY <1>0, <2>1, e \in Events
  <2>3. QED  BY <1>5, <2>2
<1>6. CASE readEvent
  <2>1. events # <<>> /\ events' = Tail(events)
    BY <1>6 DEF readEvent
  <2>2. CASE Head(events) = "channel"
    <3>1. Pending => Pending'
      <4> SUFFICES ASSUME NEW i \in DOMAIN events, events[i] = "menu" PROVE Pending'
        OBVIOUS
      <4>1. i # 1
        <5>1. Head(events) = events[1]
          BY ONLY <1>0, <2>1
        <5>2. QED  BY <2>2, <5>1
      <4>2. i - 1 \in DOMAIN events' /\ events'[i - 1] = events[i]
        BY ONLY <1>0, <2>1, <4>1, i \in DOMAIN events
      <4>3. QED  BY <4>2
    <3>2. /\ shown' = shown /\ MenuToString' = MenuToString /\ discoverer' = discoverer
          /\ loop = "read"
      BY <1>6 DEF readEvent, MenuToString
    <3>3. QED  BY <3>1, <3>2 DEF SentInv, KeyStates
  <2>3. CASE Head(events) # "channel"
    <3>1. loop' \in KeyStates \cup {"send"}
      BY <1>6, <2>3 DEF readEvent, KeyStates
    <3>2. QED  BY <3>1 DEF SentInv
  <2>4. QED  BY <2>2, <2>3
<1>7. ASSUME UNCHANGED <<shown, menu, listing>>,
             discoverer \in {"set", "index", "post"} => discoverer' = discoverer,
             loop \in KeyStates \cup {"send"} => loop' = loop,
             ~readEvent
      PROVE  SentInv'
  <2>1. \A e \in {"up", "down", "menu", "channel"} : e \in Events
    BY DEF Events
  <2>2. CASE Pending
    <3>1. Pending'
      <4>1. CASE events' = events
        BY <2>2, <4>1
      <4>2. CASE events' # events
        <5>1. PICK e \in Events : Appends(e)
          BY <1>7, <2>1, <4>2, EventsFacts
        <5>2. QED  BY <1>5, <2>2, <5>1
      <4>3. QED  BY <4>1, <4>2
    <3>2. QED  BY <3>1 DEF SentInv
  <2>3. CASE ~Pending
    BY <1>7, <2>3 DEF SentInv, MenuToString
  <2>4. QED  BY <2>2, <2>3
<1>8. loop # "asleep" \/ loop \notin KeyStates \cup {"send"}
  BY DEF KeyStates
<1>9. CASE \/ \E r \in Replies : handleReply(r) \/ ignoreReply(r)
           \/ sendLookup \/ changeToReply \/ postReplyChange \/ replaceGone
           \/ \E k \in {"up", "down"} : pressKey(k)
           \/ Elsewhere
  <2>1. UNCHANGED <<shown, menu, listing>>
    BY <1>9 DEF handleReply, ignoreReply, sendLookup, changeToReply, postReplyChange,
       replaceGone, pressKey, Elsewhere
  <2>2. discoverer \in {"set", "index", "post"} => discoverer' = discoverer
    BY <1>9 DEF handleReply, ignoreReply, sendLookup, changeToReply, postReplyChange,
       replaceGone, pressKey, Begins, Elsewhere
  <2>3. loop \in KeyStates \cup {"send"} => loop' = loop
    BY <1>8, <1>9 DEF handleReply, ignoreReply, sendLookup, changeToReply, postReplyChange,
       replaceGone, pressKey, write, Elsewhere, WaitStates, KeyStates
  <2>4. QED  BY <1>6, <1>7, <2>1, <2>2, <2>3
<1>10. QED
  BY <1>1, <1>2, <1>3, <1>4, <1>6, <1>9, Steps

\* LEMMA.  The first part of MarkInv: without keys there are none to handle.
LEMMA NoKeysStep ==
  ASSUME StateInv, MarkInv, [Next]_vars, keys' = 0
  PROVE  /\ keys = 0
         /\ (\A i \in DOMAIN events : events[i] \in {"menu", "channel"})'
         /\ (loop \in WaitStates \cup {"send"})'
<1> USE DEF OthersVars, discovererVars, handlerVars, streamVars, menuVars, RunsInto,
OnlyLoop, AfterKey
<1>0. events \in Seq(Events) /\ keys \in Nat
  BY DEF StateInv
<1>1. ~\E k \in {"up", "down"} : pressKey(k)
  <2> SUFFICES ASSUME NEW k \in {"up", "down"}, pressKey(k) PROVE FALSE
    OBVIOUS
  <2>1. keys' = keys + 1
    BY DEF pressKey
  <2>2. QED  BY ONLY <1>0, <2>1, keys' = 0
<1>2. keys = 0
  BY <1>1, Steps DEF handleReply, ignoreReply, sendLookup, changeToReply, postReplyChange,
     replaceGone, setNoMenu, replaceListing, setListing, setIndex, postMenuChange,
     readEvent, testIndex, moveIndex, enter, changeChannel, postKeyChange, noReference,
     sendMenu, Elsewhere
<1>3. (\A i \in DOMAIN events : events[i] \in {"menu", "channel"})
      /\ loop \in WaitStates \cup {"send"}
  BY <1>2 DEF MarkInv
<1>4. CASE readEvent
  <2>1. events # <<>> /\ events' = Tail(events)
    BY <1>4 DEF readEvent
  <2>2. \A i \in DOMAIN events' : events'[i] \in {"menu", "channel"}
    BY ONLY <1>0, <1>3, <2>1
  <2>3. Head(events) \in {"menu", "channel"}
    <3>1. 1 \in DOMAIN events /\ Head(events) = events[1]
      BY ONLY <1>0, <2>1
    <3>2. QED  BY <1>3, <3>1
  <2>4. QED  BY <1>2, <1>4, <2>2, <2>3 DEF readEvent, WaitStates
<1>5. CASE ~readEvent
  <2>1. (\A i \in DOMAIN events : events[i] \in {"menu", "channel"})'
    <3>1. ASSUME NEW e \in {"menu", "channel"}, Appends(e)
          PROVE  (\A i \in DOMAIN events : events[i] \in {"menu", "channel"})'
      <4>1. events' = Append(events, e)
        BY <3>1 DEF Appends
      <4>2. QED  BY ONLY <1>0, <1>3, <4>1, e \in {"menu", "channel"}
    <3>2. QED  BY <1>1, <1>3, <1>5, <3>1, EventsFacts
  <2>2. (loop \in WaitStates \cup {"send"})'
    BY <1>1, <1>3, <1>5, Steps
       DEF handleReply, ignoreReply, sendLookup, changeToReply, postReplyChange,
       replaceGone, setNoMenu, replaceListing, setListing, setIndex, postMenuChange, write,
       testIndex, moveIndex, enter, changeChannel, postKeyChange, noReference, sendMenu,
       WaitStates, Elsewhere
  <2>3. QED  BY <1>2, <2>1, <2>2
<1>6. QED  BY <1>4, <1>5

\* The rest of it.
MarkRest ==
  /\ discoverer = "change" => Listed(reply)
  /\ discoverer \notin {"change", "gone"} =>
       IF stations = <<>> THEN current_channel = NoChannel ELSE Listed(current_channel)
  /\ discoverer \in {"idle", "post"} /\ stations # <<>> =>
       /\ listing.active \in 0 .. Len(stations) - 1
       /\ stations[listing.active + 1].channel = current_channel

\* LEMMA.  The discoverer's steps keep it, and the event loop's when there is no
\* key to handle.
LEMMA MarkRestStep ==
  ASSUME StateInv, MenuInv, MarkRest, [Next]_vars, loop \in WaitStates \cup {"send"}
  PROVE  MarkRest'
<1> USE DEF OthersVars, discovererVars, handlerVars, streamVars, menuVars, RunsInto,
OnlyLoop, AfterKey
<1>0. /\ discoverer \in DiscovererStates
      /\ stations \in Seq(Station) /\ InOrder(stations)
  BY DEF StateInv
<1>1. ASSUME NEW r \in Replies, handleReply(r)
      PROVE  MarkRest'
  <2>1. /\ stations' \in Seq(Station) /\ stations' # <<>>
        /\ Has(stations', r.channel)
        /\ \A ch : Has(stations, ch) => Has(stations', ch)
    BY <1>1, ReplyFacts
  <2>2. /\ discoverer = "idle" /\ current_channel' = current_channel
        /\ \/ discoverer' = "change" /\ reply' = r.channel
           \/ /\ discoverer' = "menu"
              /\ Len(stations') = 1 => current_channel = r.channel
    <3>1. /\ discoverer = "idle" /\ current_channel' = current_channel
          /\ discoverer' \in {"change", "menu"}
          /\ discoverer' = "change" => reply' = r.channel
          /\ discoverer' = "menu" => (Len(stations') = 1 => current_channel = r.channel)
      BY <1>1 DEF handleReply, Begins
    <3>2. QED  BY <3>1
  <2>3. CASE discoverer' = "change"
    BY <2>1, <2>2, <2>3 DEF MarkRest, Listed, Has
  <2>4. CASE discoverer' = "menu"
    <3>1. Has(stations', current_channel)
      <4>1. CASE stations # <<>>
        BY <2>1, <2>2, <4>1 DEF MarkRest, Listed, Has
      <4>2. CASE stations = <<>>
        <5>1. Len(stations') = 1
          BY <1>1, <4>2, FirstStation
        <5>2. QED  BY <2>1, <2>2, <2>4, <5>1
      <4>3. QED  BY <4>1, <4>2
    <3>2. QED  BY <2>1, <2>2, <2>4, <3>1 DEF MarkRest, Listed, Has
  <2>5. QED  BY <2>2, <2>3, <2>4
<1>2. CASE sendLookup
  <2>1. CASE discoverer' = "gone"
    BY <2>1 DEF MarkRest
  <2>2. CASE discoverer' = "idle"
    <3>1. /\ stations' \in Seq(Station)
          /\ Len(stations') = Len(stations)
          /\ \A i \in 1 .. Len(stations) : stations'[i].channel = stations[i].channel
      BY <1>2, <2>2, LookupStep
    <3>2. DOMAIN stations' = DOMAIN stations /\ DOMAIN stations = 1 .. Len(stations)
      BY <1>0, <3>1
    <3>3. (stations' = <<>>) <=> (stations = <<>>)
      BY <1>0, <3>1
    <3>4. /\ listing' = listing /\ discoverer = "idle"
          /\ current_channel' = current_channel
      BY <1>2 DEF sendLookup, Begins
    <3>5. Listed(current_channel)' <=> Listed(current_channel)
      BY <3>1, <3>2, <3>4 DEF Listed
    <3>6. (/\ listing.active \in 0 .. Len(stations) - 1
           /\ stations[listing.active + 1].channel = current_channel)
          => (/\ listing.active \in 0 .. Len(stations) - 1
              /\ stations[listing.active + 1].channel = current_channel)'
      <4> SUFFICES ASSUME listing.active \in 0 .. Len(stations) - 1,
                          stations[listing.active + 1].channel = current_channel
                   PROVE  (/\ listing.active \in 0 .. Len(stations) - 1
                           /\ stations[listing.active + 1].channel = current_channel)'
        OBVIOUS
      <4>1. Len(stations) \in Nat
        BY <1>0
      <4>2. listing.active + 1 \in 1 .. Len(stations)
        BY <4>1
      <4>3. QED  BY <3>1, <3>4, <4>2
    <3>7. QED  BY <2>2, <3>3, <3>4, <3>5, <3>6 DEF MarkRest
  <2>3. QED  BY <1>2, <2>1, <2>2, LookupStep
<1>3. CASE changeToReply \/ postReplyChange
  BY <1>3 DEF changeToReply, postReplyChange, MarkRest, Listed
<1>4. CASE replaceGone
  <2>1. CASE stations = <<>>
    BY <1>4, <2>1 DEF replaceGone, StillCurrent, MarkRest, Listed
  <2>2. CASE stations # <<>>
    <3>1. 1 \in DOMAIN stations
      BY <1>0, <2>2
    <3>2. Listed(stations[1].channel)
      BY <3>1 DEF Listed
    <3>3. Listed(current_channel)'
      BY <1>4, <2>2, <3>2 DEF replaceGone, StillCurrent, Listed
    <3>4. stations' = stations /\ discoverer' = "menu"
      BY <1>4 DEF replaceGone
    <3>5. QED  BY <2>2, <3>3, <3>4 DEF MarkRest
  <2>3. QED  BY <2>1, <2>2
<1>5. CASE setNoMenu \/ replaceListing \/ setListing
  BY <1>5 DEF setNoMenu, replaceListing, setListing, MarkRest, Listed
<1>6. CASE setIndex
  <2>1. stations # <<>> /\ Listed(current_channel)
    BY <1>6 DEF setIndex, MenuInv, MarkRest
  <2>2. /\ current_index \in 0 .. Len(stations) - 1
        /\ stations[current_index + 1].channel = current_channel
    BY <1>0, <2>1, IndexFacts
  <2>3. /\ listing'.active = current_index /\ stations' = stations
        /\ current_channel' = current_channel /\ discoverer' = "post"
    BY <1>6 DEF setIndex, StateInv
  <2>4. Listed(current_channel)'
    BY <2>1, <2>3 DEF Listed
  <2>5. (/\ listing.active \in 0 .. Len(stations) - 1
         /\ stations[listing.active + 1].channel = current_channel)'
    BY <2>2, <2>3
  <2>6. QED  BY <2>1, <2>3, <2>4, <2>5 DEF MarkRest
<1>7. CASE postMenuChange
  BY <1>7 DEF postMenuChange, MarkRest, Listed
<1>8. CASE UNCHANGED <<stations, discoverer, reply, current_channel, listing>>
  BY <1>8 DEF MarkRest, Listed
<1>9. loop \notin KeyStates
  BY DEF WaitStates, KeyStates
<1>10. QED
  BY <1>1, <1>2, <1>3, <1>4, <1>5, <1>6, <1>7, <1>8, <1>9, Steps
     DEF ignoreReply, pressKey, readEvent, testIndex, moveIndex, enter, changeChannel,
         postKeyChange, noReference, sendMenu, KeyStates, Elsewhere

LEMMA InvStep == IInv /\ [Next]_vars => IInv'
<1> SUFFICES ASSUME IInv, [Next]_vars PROVE IInv'
  OBVIOUS
<1>1. StateInv /\ MenuInv /\ SentInv /\ MarkInv
  BY DEF IInv
<1>2. StateInv' /\ MenuInv' /\ SentInv'
  BY <1>1, StateStep, MenuStep, SentStep
<1>3. MarkInv'
  <2>1. CASE keys' = 0
    <3>1. /\ keys = 0
          /\ (\A i \in DOMAIN events : events[i] \in {"menu", "channel"})'
          /\ (loop \in WaitStates \cup {"send"})'
      BY <1>1, <2>1, NoKeysStep
    <3>2. MarkRest /\ loop \in WaitStates \cup {"send"}
      BY <1>1, <3>1 DEF MarkInv, MarkRest
    <3>3. MarkRest'
      BY <1>1, <3>2, MarkRestStep
    <3>4. QED  BY <3>1, <3>3 DEF MarkInv, MarkRest
  <2>2. CASE keys' # 0
    BY <2>2 DEF MarkInv
  <2>3. QED  BY <2>1, <2>2
<1>4. QED  BY <1>2, <1>3 DEF IInv

-------------------------------------------------------------------------------
(* The theorems                                                            *)

\* THEOREM.  IInv is an invariant.
THEOREM MenuInvariant == Spec => []IInv
<1>1. QED  BY InitInv, InvStep, PTL DEF Spec

\* THEOREM.  MenuHasStations: between the discoverer's rounds the menu has exactly the
\* stations of the list, one to a channel and by name, and the pointer the event
\* loop uses is to no freed listing, for any stations and any number of keys.
THEOREM MenuIsList == Spec => []MenuHasStations
<1>1. IInv => MenuHasStations
  BY DEF IInv, StateInv, MenuInv, MenuHasStations, InOrder
<1>2. QED  BY <1>1, MenuInvariant, PTL

\* THEOREM.  SentIsCurrent: once both threads are through and no event is left, the
\* users have the present menu.
THEOREM NoChangeUnsent == Spec => []SentIsCurrent
<1>1. IInv => SentIsCurrent
  BY DEF IInv, SentInv, SentIsCurrent, Quiet, KeyStates
<1>2. QED  BY <1>1, MenuInvariant, PTL

\* THEOREM.  MarkedIsPlayed: as long as nobody has pressed a key, the option that is
\* marked when all is quiet is the station that is played.
THEOREM MarkFollowsChannel == Spec => []MarkedIsPlayed
<1>1. IInv => MarkedIsPlayed
  <2> SUFFICES ASSUME IInv, keys = 0, Quiet
               PROVE  IF menu = "null" THEN current_channel = NoChannel
                      ELSE /\ HasOption(listing.active)
                           /\ listing.options[listing.active + 1].channel = current_channel
    BY DEF MarkedIsPlayed
  <2>1. discoverer = "idle" /\ stations \in Seq(Station)
    BY DEF IInv, StateInv, Quiet
  <2>2. CASE stations = <<>>
    BY <2>1, <2>2 DEF IInv, MenuInv, MarkInv
  <2>3. CASE stations # <<>>
    <3>1. menu = "listing" /\ listing.options = Options
      BY <2>1, <2>3 DEF IInv, MenuInv
    <3>2. /\ listing.active \in 0 .. Len(stations) - 1
          /\ stations[listing.active + 1].channel = current_channel
      BY <2>1, <2>3 DEF IInv, MarkInv
    <3>3. /\ Len(Options) = Len(stations)
          /\ \A i \in 1 .. Len(stations) : Options[i].channel = stations[i].channel
      BY <2>1, OptionsFacts
    <3>4. listing.active + 1 \in 1 .. Len(stations)
      BY <2>1, <3>2
    <3>5. QED  BY <3>1, <3>2, <3>3, <3>4 DEF HasOption
  <2>4. QED  BY <2>2, <2>3
<1>2. QED  BY <1>1, MenuInvariant, PTL

===============================================================================
