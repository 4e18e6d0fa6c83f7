--------------------------- MODULE AudioBufferProofs ---------------------------
(***************************************************************************)
(* The invariants of AudioBuffer for every set of packets and every size.  *)
(*                                                                         *)
(* The strengthening ties the loop of push to the list: while a packet is  *)
(* being pushed, fill is the number after the last slot's and the packet's *)
(* number is a multiple of psize away, so the loop ends exactly at it; and *)
(* every number asked for or played is below the slots the list may still  *)
(* get.                                                                    *)
(***************************************************************************)
EXTENDS AudioBuffer, SequenceTheorems, TLAPS

\* The number after that of the last slot.
Top == lowest_fbn + Len(packets) * psize

PushInv ==
  pushing # NoPacket =>
    /\ packets # <<>>
    /\ pushing.size = psize
    /\ fill = Top
    /\ fill <= pushing.fbn

NumbersInv ==
  /\ lowest_fbn >= 0
  /\ psize > 0 => lowest_fbn % psize = 0
  /\ psize = 0 => packets = <<>> /\ pushing = NoPacket
  /\ played < lowest_fbn \/ played = -1
  /\ \A n \in asked : n < Top

IInv ==
  /\ TypeOK
  /\ SlotsInOrder
  /\ MissingMapExact
  /\ RequestsStillMissing
  /\ RequestedOnce
  /\ WithinSize
  /\ BackIsPacket
  /\ PushInv
  /\ NumbersInv

-------------------------------------------------------------------------------
(* Lists of consecutive slots.                                             *)

\* ps stands for the numbers low, low + d, ... and mm names its empty slots.
Shape(ps, low, d, mm) ==
  /\ \A i \in 1 .. Len(ps) : ps[i] # Missing => ps[i].fbn = low + (i - 1) * d
  /\ \A n \in mm : \E i \in 1 .. Len(ps) : ps[i] = Missing /\ n = low + (i - 1) * d
  /\ \A i \in 1 .. Len(ps) : ps[i] = Missing => low + (i - 1) * d \in mm

\* LEMMA.  The numbers of the empty slots, as a set.
LEMMA ShapeAsSet ==
  ASSUME NEW ps, NEW low, NEW d, NEW mm
  PROVE  Shape(ps, low, d, mm) <=>
           /\ \A i \in 1 .. Len(ps) : ps[i] # Missing => ps[i].fbn = low + (i - 1) * d
           /\ mm = {low + (i - 1) * d : i \in {j \in 1 .. Len(ps) : ps[j] = Missing}}
<1> DEFINE E == {low + (i - 1) * d : i \in {j \in 1 .. Len(ps) : ps[j] = Missing}}
<1>1. \A n : n \in E <=> \E i \in 1 .. Len(ps) : ps[i] = Missing /\ n = low + (i - 1) * d
  OBVIOUS
<1> HIDE DEF E
<1>2. mm = E <=> /\ \A n \in mm : \E i \in 1 .. Len(ps) : ps[i] = Missing /\ n = low + (i - 1) * d
                 /\ \A i \in 1 .. Len(ps) : ps[i] = Missing => low + (i - 1) * d \in mm
  BY <1>1
<1> QED BY <1>2 DEF Shape, E

\* LEMMA.  The two invariants about the list say that it has this shape.
LEMMA ShapeOfBuffer ==
  SlotsInOrder /\ MissingMapExact <=> Shape(packets, lowest_fbn, psize, missing_map)
  BY ShapeAsSet DEF SlotsInOrder, MissingMapExact, Number

\* LEMMA.  The same of the next state.
LEMMA ShapeOfBufferNext ==
  (SlotsInOrder /\ MissingMapExact)' <=> Shape(packets', lowest_fbn', psize', missing_map')
  BY ShapeAsSet DEF SlotsInOrder, MissingMapExact, Number

\* LEMMA.  dropPacket: without its front the list starts at the next number.
LEMMA ShapeOfTail ==
  ASSUME NEW ps \in Seq(Packets \cup {Missing}), NEW low \in Nat, NEW d \in Nat \ {0},
         NEW mm, ps # <<>>, Shape(ps, low, d, mm)
  PROVE  /\ Tail(ps) \in Seq(Packets \cup {Missing})
         /\ Len(Tail(ps)) = Len(ps) - 1
         /\ Shape(Tail(ps), low + d, d, mm \ {low})
<1>1. /\ Tail(ps) \in Seq(Packets \cup {Missing})
      /\ Len(Tail(ps)) = Len(ps) - 1
      /\ \A i \in 1 .. Len(ps) - 1 : Tail(ps)[i] = ps[i + 1]
      /\ Len(ps) \in Nat
  BY HeadTailProperties
<1>2. \A i \in Int : low + d + (i - 1) * d = low + ((i + 1) - 1) * d
  OBVIOUS
<1>3. ASSUME NEW i \in 1 .. Len(ps) - 1, Tail(ps)[i] # Missing
      PROVE  Tail(ps)[i].fbn = low + d + (i - 1) * d
  BY <1>1, <1>2, <1>3, i + 1 \in 1 .. Len(ps) DEF Shape
<1>4. ASSUME NEW n \in mm \ {low}
      PROVE  \E i \in 1 .. Len(ps) - 1 : Tail(ps)[i] = Missing /\ n = low + d + (i - 1) * d
  <2>1. PICK j \in 1 .. Len(ps) : ps[j] = Missing /\ n = low + (j - 1) * d
    BY DEF Shape
  <2>2. j # 1
    BY <2>1
  <2>3. j - 1 \in 1 .. Len(ps) - 1
    BY <2>2, <1>1
  <2>4. Tail(ps)[j - 1] = Missing /\ n = low + d + ((j - 1) - 1) * d
    BY <2>1, <2>3, <1>1, <1>2
  <2> QED BY <2>3, <2>4
<1>5. ASSUME NEW i \in 1 .. Len(ps) - 1, Tail(ps)[i] = Missing
      PROVE  low + d + (i - 1) * d \in mm \ {low}
  <2>1. low + d + (i - 1) * d \in mm
    BY <1>1, <1>2, <1>5, i + 1 \in 1 .. Len(ps) DEF Shape
  <2>2. i - 1 \in Nat /\ (i - 1) * d \in Nat
    BY <1>1
  <2> QED BY <2>1, <2>2
<1> QED BY <1>1, <1>3, <1>4, <1>5 DEF Shape

\* LEMMA.  push_back of the packet of the next number, or of an empty slot that
\* is entered in the map.
LEMMA ShapeOfAppend ==
  ASSUME NEW ps \in Seq(Packets \cup {Missing}), NEW low \in Nat, NEW d \in Nat,
         NEW mm, NEW slot \in Packets \cup {Missing}, Shape(ps, low, d, mm),
         slot # Missing => slot.fbn = low + Len(ps) * d
  PROVE  /\ Append(ps, slot) \in Seq(Packets \cup {Missing})
         /\ Len(Append(ps, slot)) = Len(ps) + 1
         /\ Append(ps, slot)[Len(ps) + 1] = slot
         /\ Shape(Append(ps, slot), low, d,
                  mm \cup (IF slot = Missing THEN {low + Len(ps) * d} ELSE {}))
<1> DEFINE qs == Append(ps, slot)
           top == low + Len(ps) * d
           nn == mm \cup (IF slot = Missing THEN {top} ELSE {})
<1>1. /\ qs \in Seq(Packets \cup {Missing})
      /\ Len(qs) = Len(ps) + 1
      /\ \A i \in 1 .. Len(ps) : qs[i] = ps[i]
      /\ qs[Len(ps) + 1] = slot
      /\ Len(ps) \in Nat
  BY AppendProperties
<1>2. top = low + ((Len(ps) + 1) - 1) * d
  BY <1>1
<1> HIDE DEF qs, top
<1>3. \A i \in 1 .. Len(qs) : i \in 1 .. Len(ps) \/ i = Len(ps) + 1
  BY <1>1
<1>4. ASSUME NEW i \in 1 .. Len(qs), qs[i] # Missing
      PROVE  qs[i].fbn = low + (i - 1) * d
  BY <1>1, <1>2, <1>3, <1>4 DEF Shape, top
<1>5. ASSUME NEW n \in nn
      PROVE  \E i \in 1 .. Len(qs) : qs[i] = Missing /\ n = low + (i - 1) * d
  <2>1. CASE n \in mm
    <3>1. PICK j \in 1 .. Len(ps) : ps[j] = Missing /\ n = low + (j - 1) * d
      BY <2>1 DEF Shape
    <3>2. j \in 1 .. Len(qs) /\ qs[j] = Missing
      BY <3>1, <1>1
    <3> QED BY ONLY <3>1, <3>2
  <2>2. CASE n \notin mm
    <3>1. slot = Missing /\ n = top
      BY <2>2, <1>5
    <3> QED BY <3>1, <1>1, <1>2, Len(ps) + 1 \in 1 .. Len(qs)
  <2> QED BY <2>1, <2>2
<1>6. ASSUME NEW i \in 1 .. Len(qs), qs[i] = Missing
      PROVE  low + (i - 1) * d \in nn
  BY <1>1, <1>2, <1>3, <1>6 DEF Shape
<1>7. Shape(qs, low, d, nn)
  BY <1>4, <1>5, <1>6 DEF Shape
<1>8. /\ qs \in Seq(Packets \cup {Missing})
      /\ Len(qs) = Len(ps) + 1
      /\ qs[Len(ps) + 1] = slot
  BY <1>1
<1> QED BY ONLY <1>7, <1>8, Zenon DEF qs, top, nn
-------------------------------------------------------------------------------
(* Numbers that are multiples of the packet size.                          *)

\* LEMMA.  So is a number any number of packets further.
LEMMA StepsKeepAligned ==
  ASSUME NEW n \in Nat, NEW d \in Nat \ {0}, NEW k \in Nat, n % d = 0
  PROVE  (n + k * d) % d = 0
<1>1. PICK m \in Nat : n = m * d
  OBVIOUS
<1>2. n + k * d = (m + k) * d
  BY <1>1
<1>3. ASSUME NEW j \in Nat PROVE (j * d) % d = 0
  OBVIOUS
<1>4. ((m + k) * d) % d = 0
  BY <1>3, m + k \in Nat
<1> QED BY <1>2, <1>4

\* LEMMA.  Between one and the next there is no other.
LEMMA NextMultiple ==
  ASSUME NEW a \in Nat, NEW b \in Nat, NEW d \in Nat \ {0}, a % d = 0, b % d = 0, b < a
  PROVE  b + d <= a
<1>1. PICK m \in Nat : b = m * d
  OBVIOUS
<1>2. PICK n \in Nat : a = n * d
  OBVIOUS
<1>3. m + 1 <= n
  BY <1>1, <1>2
<1>4. (m + 1) * d <= n * d
  BY <1>3
<1> QED BY <1>1, <1>2, <1>4

-------------------------------------------------------------------------------
(* insertPacket.                                                           *)

\* LEMMA.  While a packet is being pushed, appending the slot of the next
\* number, after a drop if the list is full, keeps the shape, the capacity and
\* the bound below every number asked for.
LEMMA InsertInv ==
  ASSUME IInv, pushing # NoPacket, NEW slot \in Packets \cup {Missing},
         slot # Missing => slot.fbn = Top,
         insertPacket(slot), psize' = psize, size' = size,
         missing_map' = (missing_map \ dropped) \cup (IF slot = Missing THEN {Top} ELSE {})
  PROVE  /\ packets' \in Seq(Packets \cup {Missing})
         /\ packets' # <<>>
         /\ back' = slot
         /\ lowest_fbn' \in Nat /\ lowest_fbn' >= lowest_fbn
         /\ lowest_fbn' % psize = 0
         /\ Top' = Top + psize
         /\ SlotsInOrder' /\ MissingMapExact' /\ WithinSize'
         /\ missing_map' \subseteq Nat
<1>1. /\ packets \in Seq(Packets \cup {Missing}) /\ packets # <<>>
      /\ lowest_fbn \in Nat /\ psize \in Nat \ {0} /\ size \in Nat
      /\ Len(packets) \in Nat \ {0}
      /\ lowest_fbn % psize = 0
      /\ Shape(packets, lowest_fbn, psize, missing_map)
      /\ missing_map \subseteq Nat
      /\ size > 0 => Len(packets) <= size
  <2>1. packets \in Seq(Packets \cup {Missing}) /\ packets # <<>> => Len(packets) \in Nat \ {0}
    BY EmptySeq, LenProperties
  <2> QED BY <2>1, ShapeOfBuffer DEF IInv, TypeOK, PushInv, NumbersInv, WithinSize
<1>2. Top \in Nat
  BY <1>1 DEF Top
<1>3. missing_map' \subseteq Nat
  BY <1>1, <1>2
<1>4. CASE Len(packets) = size
  <2>1. packets' = Append(Tail(packets), slot) /\ lowest_fbn' = lowest_fbn + psize
    BY <1>4 DEF insertPacket
  <2> DEFINE tail == Tail(packets)
             low == lowest_fbn + psize
             mm == missing_map \ {lowest_fbn}
  <2>2. /\ tail \in Seq(Packets \cup {Missing})
        /\ Len(tail) = Len(packets) - 1
        /\ Shape(tail, low, psize, mm)
    BY <1>1, ShapeOfTail
  <2>3. low + Len(tail) * psize = Top /\ low \in Nat
    BY <1>1, <2>2 DEF Top
  <2>4. missing_map' = mm \cup (IF slot = Missing THEN {Top} ELSE {})
    BY <1>4 DEF dropped
  <2> HIDE DEF tail, low, mm
  <2>5. /\ Append(tail, slot) \in Seq(Packets \cup {Missing})
        /\ Len(Append(tail, slot)) = Len(tail) + 1
        /\ Append(tail, slot)[Len(tail) + 1] = slot
        /\ Shape(Append(tail, slot), low, psize, missing_map')
    BY <1>1, <2>2, <2>3, <2>4, ShapeOfAppend
  <2>6. packets' = Append(tail, slot) /\ lowest_fbn' = low
    BY <2>1 DEF tail, low
  <2>7. Len(packets') = Len(packets)
    BY <1>1, <2>2, <2>5, <2>6
  <2>8. packets' # <<>>
    BY <1>1, <2>7, EmptySeq
  <2>9. back' = slot
    BY <1>1, <2>2, <2>5, <2>6, <2>7 DEF back
  <2>10. low >= lowest_fbn /\ low % psize = 0
    BY <1>1 DEF low
  <2>11. Top' = Top + psize
    BY <1>1, <2>6, <2>7 DEF Top, low
  <2>12. SlotsInOrder' /\ MissingMapExact'
    BY <2>5, <2>6, ShapeOfBufferNext
  <2> QED BY <1>1, <1>3, <1>4, <2>3, <2>5, <2>6, <2>7, <2>8, <2>9, <2>10, <2>11, <2>12
       DEF WithinSize
<1>5. CASE Len(packets) # size
  <2>1. packets' = Append(packets, slot) /\ lowest_fbn' = lowest_fbn
    BY <1>5 DEF insertPacket
  <2>2. missing_map' = missing_map \cup (IF slot = Missing THEN {Top} ELSE {})
    BY <1>5 DEF dropped
  <2>3. /\ packets' \in Seq(Packets \cup {Missing})
        /\ Len(packets') = Len(packets) + 1
        /\ packets'[Len(packets) + 1] = slot
        /\ Shape(packets', lowest_fbn, psize, missing_map')
    <3> DEFINE mm == missing_map \cup (IF slot = Missing THEN {lowest_fbn + Len(packets) * psize} ELSE {})
    <3>1. missing_map' = mm
      BY <2>2 DEF Top
    <3>2. slot # Missing => slot.fbn = lowest_fbn + Len(packets) * psize
      BY DEF Top
    <3>3. /\ Append(packets, slot) \in Seq(Packets \cup {Missing})
          /\ Len(Append(packets, slot)) = Len(packets) + 1
          /\ Append(packets, slot)[Len(packets) + 1] = slot
          /\ Shape(Append(packets, slot), lowest_fbn, psize, mm)
      BY <1>1, <3>2, ShapeOfAppend
    <3> QED BY <2>1, <3>1, <3>3
  <2>4. packets' # <<>> /\ back' = slot
    BY <1>1, <2>3, EmptySeq DEF back
  <2>5. Top' = Top + psize
    BY <1>1, <2>1, <2>3 DEF Top
  <2>6. SlotsInOrder' /\ MissingMapExact'
    BY <2>1, <2>3, ShapeOfBufferNext
  <2>7. WithinSize'
    BY <1>1, <1>5, <2>3 DEF WithinSize
  <2> QED BY <1>1, <1>3, <2>1, <2>3, <2>4, <2>5, <2>6, <2>7
<1> QED BY <1>4, <1>5
-------------------------------------------------------------------------------
(* Every step keeps the invariant.                                         *)

\* LEMMA.  Before the first session the invariant holds.
LEMMA InitInv == Init => IInv
<1> SUFFICES ASSUME Init PROVE IInv
  OBVIOUS
<1>1. packets = <<>> /\ Len(packets) = 0 /\ packets \in Seq(Packets \cup {Missing})
  BY EmptySeq DEF Init
<1>2. TypeOK
  BY <1>1 DEF Init, TypeOK
<1>3. SlotsInOrder /\ MissingMapExact
  BY <1>1 DEF Init, SlotsInOrder, MissingMapExact
<1> QED
  BY <1>1, <1>2, <1>3
     DEF Init, IInv, RequestsStillMissing, RequestedOnce, WithinSize, BackIsPacket,
         PushInv, NumbersInv

\* LEMMA.  A step that leaves every variable alone keeps the invariant.
LEMMA StutterInv ==
  ASSUME IInv, UNCHANGED bufferVars
  PROVE  IInv'
  BY DEF bufferVars, IInv, TypeOK, SlotsInOrder, MissingMapExact, Number, RequestsStillMissing,
         RequestedOnce, WithinSize, BackIsPacket, back, PushInv, NumbersInv, Top

\* LEMMA.  What a step does to the bounds on numbers when it adds no request.
LEMMA NumbersStep ==
  ASSUME IInv, psize' = psize, psize \in Nat \ {0}, asked' = asked,
         lowest_fbn' \in Nat, lowest_fbn' >= lowest_fbn, lowest_fbn' % psize = 0,
         Top' >= Top, Top \in Nat, Top' \in Nat,
         played' = played \/ (played' = lowest_fbn /\ lowest_fbn < lowest_fbn')
  PROVE  NumbersInv'
<1>1. /\ lowest_fbn \in Nat /\ played \in Nat \cup {-1} /\ asked \subseteq Nat
      /\ played < lowest_fbn \/ played = -1
      /\ \A n \in asked : n < Top
  BY DEF IInv, TypeOK, NumbersInv
<1>2. played' < lowest_fbn' \/ played' = -1
  BY <1>1
<1>3. \A n \in asked' : n < Top'
  BY <1>1
<1>4. lowest_fbn' >= 0 /\ psize' # 0
  OBVIOUS
<1>5. psize' > 0 => lowest_fbn' % psize' = 0
  OBVIOUS
<1> QED BY ONLY <1>2, <1>3, <1>4, <1>5 DEF NumbersInv

\* LEMMA.  A new buffer satisfies the invariant whatever the old one was.
LEMMA ResetInv ==
  ASSUME IInv, NEW initial \in Packets, missing_packets = {}, newBuffer(initial)
  PROVE  IInv'
<1>0. pushing = NoPacket /\ pushing' = NoPacket
  BY DEF newBuffer
<1>1. CASE initial.size = 0
  <2>1. /\ missing_packets' = {} /\ undefined' = TRUE
        /\ UNCHANGED <<packets, missing_map, lowest_fbn, ready, size, psize,
                       pushing, fill, played, asked>>
    BY <1>1 DEF newBuffer
  <2>2. TypeOK'
    BY <2>1 DEF IInv, TypeOK
  <2>3. SlotsInOrder' /\ MissingMapExact' /\ WithinSize' /\ BackIsPacket' /\ PushInv' /\ NumbersInv'
    BY <2>1 DEF IInv, SlotsInOrder, MissingMapExact, Number, WithinSize, BackIsPacket, back,
                PushInv, NumbersInv, Top
  <2> QED BY <2>1, <2>2, <2>3 DEF IInv, RequestsStillMissing, RequestedOnce
<1>2. CASE initial.size > 0
  <2>1. /\ packets' = <<initial>> /\ lowest_fbn' = initial.fbn /\ psize' = initial.size
        /\ size' = BSize \div initial.size /\ missing_map' = {} /\ missing_packets' = {}
        /\ asked' = {} /\ played' = -1 /\ ready' = FALSE /\ fill' = fill
        /\ undefined' = undefined
    BY <1>2 DEF newBuffer, AudioBuffer
  <2>2. initial.fbn \in Nat /\ initial.size \in Nat \ {0} /\ initial.fbn % initial.size = 0
    BY <1>2, PacketsAssumption, AlignedAssumption
  <2>3. BSize \div initial.size \in Nat
    BY <2>2, BSizeAssumption
  <2>4. packets' # <<>> /\ Len(packets') = 1 /\ packets'[1] = initial
        /\ packets' \in Seq(Packets \cup {Missing})
    BY <2>1
  <2>5. initial # Missing
    BY MarkerAssumption
  <2>6. TypeOK'
    BY <1>0, <2>1, <2>2, <2>3, <2>4 DEF IInv, TypeOK
  <2>7. Shape(packets', lowest_fbn', psize', missing_map')
    BY <2>1, <2>2, <2>4, <2>5 DEF Shape
  <2>8. WithinSize'
    BY <2>1, <2>3, <2>4 DEF WithinSize
  <2>9. NumbersInv'
    BY <1>0, <2>1, <2>2, <2>4 DEF NumbersInv
  <2> QED
    BY <1>0, <2>1, <2>4, <2>5, <2>6, <2>7, <2>8, <2>9, ShapeOfBufferNext
       DEF IInv, RequestsStillMissing, RequestedOnce, BackIsPacket, back, PushInv
<1> QED BY <1>1, <1>2, PacketsAssumption

\* LEMMA.  Clearing the shared list gives up requests, nothing else.
LEMMA ClearInv ==
  ASSUME IInv, clearMissing
  PROVE  IInv'
<1>1. /\ missing_packets' = {}
      /\ UNCHANGED <<packets, missing_map, lowest_fbn, ready, size, psize,
                     pushing, fill, undefined, played, asked>>
  BY DEF clearMissing
<1>2. TypeOK'
  BY <1>1 DEF IInv, TypeOK
<1>3. SlotsInOrder' /\ MissingMapExact' /\ WithinSize' /\ BackIsPacket' /\ PushInv' /\ NumbersInv'
  BY <1>1 DEF IInv, SlotsInOrder, MissingMapExact, Number, WithinSize, BackIsPacket, back,
              PushInv, NumbersInv, Top
<1> QED BY <1>1, <1>2, <1>3 DEF IInv, RequestsStillMissing, RequestedOnce

\* LEMMA.  The call of push: only a new packet starts its loop, with fill at the
\* number after the last slot's.
LEMMA PushInvariant ==
  ASSUME IInv, NEW ap \in Packets, putPacket(ap)
  PROVE  IInv'
<1>0. pushing = NoPacket /\ psize > 0 /\ ap.size = psize
  BY DEF putPacket, push
<1>1. CASE putMissing(ap)
  BY <1>0, <1>1
     DEF putMissing, IInv, TypeOK, SlotsInOrder, MissingMapExact, Number, RequestsStillMissing,
         RequestedOnce, WithinSize, BackIsPacket, back, PushInv, NumbersInv, Top
<1>2. CASE pushOnEmpty(ap)
  BY <1>0, <1>2
     DEF pushOnEmpty, IInv, TypeOK, SlotsInOrder, MissingMapExact, Number, RequestsStillMissing,
         RequestedOnce, WithinSize, BackIsPacket, back, PushInv, NumbersInv, Top
<1>3. CASE pushOld(ap)
  BY <1>3, StutterInv DEF pushOld
<1>4. CASE pushNew(ap)
  <2>1. /\ packets # <<>> /\ ap.fbn > back.fbn /\ pushing' = ap /\ fill' = back.fbn + psize
        /\ UNCHANGED <<packets, missing_map, missing_packets, lowest_fbn, ready,
                       size, psize, undefined, played, asked>>
    BY <1>4 DEF pushNew, firstMissing
  <2>2. /\ packets \in Seq(Packets \cup {Missing}) /\ Len(packets) \in Nat \ {0}
        /\ psize \in Nat \ {0} /\ lowest_fbn \in Nat /\ lowest_fbn % psize = 0
    BY <1>0, <2>1, EmptySeq, LenProperties DEF IInv, TypeOK, NumbersInv
  <2>3. back # Missing /\ back.fbn = lowest_fbn + (Len(packets) - 1) * psize
    BY <1>0, <2>1, <2>2 DEF IInv, BackIsPacket, SlotsInOrder, Number, back
  <2>4. (Len(packets) - 1) * psize \in Nat /\ Len(packets) * psize = (Len(packets) - 1) * psize + psize
    BY <2>2
  <2>5. back.fbn \in Nat /\ fill' = Top
    BY <2>1, <2>2, <2>3, <2>4 DEF Top
  <2>6. back.fbn % psize = 0
    <3> DEFINE k == Len(packets) - 1
    <3>1. k \in Nat
      BY <2>2
    <3> HIDE DEF k
    <3>2. (lowest_fbn + k * psize) % psize = 0
      BY <2>2, <3>1, StepsKeepAligned
    <3> QED BY <2>3, <3>2 DEF k
  <2>7. ap.fbn \in Nat /\ ap.fbn % psize = 0
    BY <1>0, PacketsAssumption, AlignedAssumption
  <2>8. back.fbn + psize <= ap.fbn
    <3> DEFINE b == back.fbn
               a == ap.fbn
    <3>1. b \in Nat /\ a \in Nat /\ b < a /\ b % psize = 0 /\ a % psize = 0
      BY <2>1, <2>5, <2>6, <2>7
    <3> HIDE DEF a, b
    <3>2. b + psize <= a
      BY <2>2, <3>1, NextMultiple
    <3> QED BY <3>2 DEF a, b
  <2>9. PushInv'
    BY <1>0, <2>1, <2>5, <2>8 DEF PushInv, Top
  <2>10. TypeOK'
    BY <2>1, <2>2, <2>5 DEF IInv, TypeOK
  <2>11. /\ SlotsInOrder' /\ MissingMapExact' /\ RequestsStillMissing' /\ RequestedOnce'
         /\ WithinSize'
    BY <2>1 DEF IInv, SlotsInOrder, MissingMapExact, Number, RequestsStillMissing,
                RequestedOnce, WithinSize
  <2>12. BackIsPacket'
    BY <2>1, MarkerAssumption DEF BackIsPacket
  <2>13. NumbersInv'
    BY <1>0, <2>1 DEF IInv, NumbersInv, Top
  <2> QED BY <2>9, <2>10, <2>11, <2>12, <2>13 DEF IInv
<1> QED BY <1>1, <1>2, <1>3, <1>4 DEF putPacket, push

\* LEMMA.  One iteration of push's loop.
LEMMA FillInv ==
  ASSUME IInv, fillMissing
  PROVE  IInv'
<1>1. /\ pushing # NoPacket /\ fill < pushing.fbn /\ insertPacket(Missing)
      /\ missing_packets' = (missing_packets \ dropped) \cup {Top}
      /\ missing_map' = (missing_map \ dropped) \cup {Top}
      /\ fill' = Top + psize
      /\ fill = Top
      /\ UNCHANGED <<ready, size, psize, pushing, undefined, played, asked>>
  BY DEF fillMissing, IInv, PushInv
<1>2. /\ packets' \in Seq(Packets \cup {Missing}) /\ packets' # <<>> /\ back' = Missing
      /\ lowest_fbn' \in Nat /\ lowest_fbn' >= lowest_fbn /\ lowest_fbn' % psize = 0
      /\ Top' = Top + psize
      /\ SlotsInOrder' /\ MissingMapExact' /\ WithinSize'
      /\ missing_map' \subseteq Nat
  BY <1>1, InsertInv
<1>3. /\ pushing \in Packets /\ pushing.size = psize /\ psize \in Nat \ {0}
      /\ Top \in Nat /\ pushing.fbn \in Nat /\ pushing.fbn % psize = 0
  BY <1>1, PacketsAssumption, AlignedAssumption DEF IInv, TypeOK, PushInv, NumbersInv
<1>4. Top % psize = 0
  <2>1. lowest_fbn \in Nat /\ lowest_fbn % psize = 0 /\ Len(packets) \in Nat
    BY <1>3, LenProperties DEF IInv, TypeOK, NumbersInv
  <2> QED BY <1>3, <2>1, StepsKeepAligned DEF Top
<1>5. fill' <= pushing.fbn
  <2> DEFINE a == pushing.fbn
  <2>1. a \in Nat /\ a % psize = 0 /\ Top < a
    BY <1>1, <1>3
  <2> HIDE DEF a
  <2>2. Top + psize <= a
    BY <1>3, <1>4, <2>1, NextMultiple
  <2> QED BY <1>1, <2>2 DEF a
<1>6. PushInv'
  BY <1>1, <1>2, <1>3, <1>5 DEF PushInv
<1>7. TypeOK'
  <2>1. fill' \in Nat /\ missing_packets' \subseteq Nat
    <3>1. missing_packets \subseteq Nat
      BY DEF IInv, TypeOK
    <3>2. fill' \in Nat
      BY <1>1, <1>3
    <3> QED BY ONLY <1>1, <1>3, <3>1, <3>2
  <2> QED BY <1>1, <1>2, <2>1 DEF IInv, TypeOK
<1>8. RequestsStillMissing'
  BY <1>1 DEF IInv, RequestsStillMissing
<1>9. RequestedOnce'
  BY <1>1, <1>3 DEF IInv, RequestedOnce, NumbersInv
<1>10. BackIsPacket'
  BY <1>1, MarkerAssumption DEF BackIsPacket
<1>11. NumbersInv'
  <2>1. Top' \in Nat /\ Top' >= Top
    BY <1>2, <1>3
  <2> QED BY <1>1, <1>2, <1>3, <2>1, NumbersStep
<1> QED BY <1>2, <1>6, <1>7, <1>8, <1>9, <1>10, <1>11 DEF IInv

\* LEMMA.  The end of a push.
LEMMA InsertPushedInv ==
  ASSUME IInv, insertPushed
  PROVE  IInv'
<1>1. /\ pushing # NoPacket /\ fill >= pushing.fbn /\ insertPacket(pushing)
      /\ missing_packets' = missing_packets \ dropped
      /\ missing_map' = missing_map \ dropped
      /\ pushing' = NoPacket
      /\ ready' \in BOOLEAN
      /\ UNCHANGED <<size, psize, fill, undefined, played, asked>>
  <2>1. ready' \in BOOLEAN
    BY DEF insertPushed, IInv, TypeOK
  <2> QED BY <2>1 DEF insertPushed
<1>2. pushing \in Packets /\ pushing # Missing /\ psize \in Nat \ {0} /\ Top \in Nat
  BY <1>1, MarkerAssumption DEF IInv, TypeOK, PushInv, NumbersInv
<1>3. pushing.fbn = Top
  BY <1>1, <1>2, PacketsAssumption DEF IInv, PushInv
<1>4. missing_map' = (missing_map \ dropped) \cup (IF pushing = Missing THEN {Top} ELSE {})
  BY <1>1, <1>2
<1>5. /\ packets' \in Seq(Packets \cup {Missing}) /\ packets' # <<>> /\ back' = pushing
      /\ lowest_fbn' \in Nat /\ lowest_fbn' >= lowest_fbn /\ lowest_fbn' % psize = 0
      /\ Top' = Top + psize
      /\ SlotsInOrder' /\ MissingMapExact' /\ WithinSize'
      /\ missing_map' \subseteq Nat
  BY <1>1, <1>2, <1>3, <1>4, InsertInv
<1>6. TypeOK'
  BY <1>1, <1>2, <1>5 DEF IInv, TypeOK
<1>7. RequestsStillMissing' /\ RequestedOnce'
  BY <1>1 DEF IInv, RequestsStillMissing, RequestedOnce
<1>8. BackIsPacket' /\ PushInv'
  BY <1>1, <1>2, <1>5 DEF BackIsPacket, PushInv
<1>9. NumbersInv'
  <2>1. Top' \in Nat /\ Top' >= Top
    BY <1>2, <1>5
  <2> QED BY <1>1, <1>2, <1>5, <2>1, NumbersStep
<1> QED BY <1>5, <1>6, <1>7, <1>8, <1>9 DEF IInv

\* LEMMA.  dropPacket, of a list that is not being pushed to.
LEMMA DropInv ==
  ASSUME IInv, pushing = NoPacket, packets # <<>>, dropPacket,
         UNCHANGED <<ready, size, psize, pushing, fill, undefined, asked>>,
         played' = played \/ played' = lowest_fbn
  PROVE  IInv'
<1>1. /\ packets \in Seq(Packets \cup {Missing}) /\ Len(packets) \in Nat \ {0}
      /\ psize \in Nat \ {0} /\ lowest_fbn \in Nat /\ lowest_fbn % psize = 0
      /\ size \in Nat
  BY EmptySeq, LenProperties DEF IInv, TypeOK, NumbersInv
<1>2. /\ packets' = Tail(packets) /\ lowest_fbn' = lowest_fbn + psize
      /\ missing_map' = missing_map \ {lowest_fbn}
      /\ missing_packets' = missing_packets \ {lowest_fbn}
  BY DEF dropPacket
<1>3. Shape(packets, lowest_fbn, psize, missing_map)
  BY ShapeOfBuffer DEF IInv
<1>4. /\ packets' \in Seq(Packets \cup {Missing})
      /\ Len(packets') = Len(packets) - 1
      /\ Shape(packets', lowest_fbn', psize', missing_map')
  <2>1. /\ Tail(packets) \in Seq(Packets \cup {Missing})
        /\ Len(Tail(packets)) = Len(packets) - 1
        /\ Shape(Tail(packets), lowest_fbn + psize, psize, missing_map \ {lowest_fbn})
    BY <1>1, <1>3, ShapeOfTail
  <2> QED BY <1>2, <2>1
<1>5. SlotsInOrder' /\ MissingMapExact'
  BY <1>4, ShapeOfBufferNext
<1>6. lowest_fbn' \in Nat /\ lowest_fbn' % psize = 0 /\ lowest_fbn < lowest_fbn'
  BY <1>1, <1>2
<1>7. Top' = Top
  BY <1>1, <1>2, <1>4 DEF Top
<1>8. TypeOK'
  BY <1>1, <1>2, <1>4, <1>6 DEF IInv, TypeOK
<1>9. RequestsStillMissing' /\ RequestedOnce'
  BY <1>2 DEF IInv, RequestsStillMissing, RequestedOnce
<1>10. WithinSize'
  BY <1>1, <1>4 DEF IInv, WithinSize
<1>11. BackIsPacket'
  <2> SUFFICES ASSUME packets' # <<>> PROVE back' # Missing
    BY DEF BackIsPacket
  <2>1. Len(packets') \in Nat \ {0}
    BY <1>4, EmptySeq, LenProperties
  <2>2. back' = back
    BY <1>1, <1>2, <1>4, <2>1, HeadTailProperties DEF back
  <2> QED BY <2>2 DEF IInv, BackIsPacket
<1>12. PushInv'
  BY DEF PushInv
<1>13. NumbersInv'
  BY <1>1, <1>2, <1>6, <1>7, Top \in Nat, NumbersStep DEF Top
<1> QED BY <1>5, <1>8, <1>9, <1>10, <1>11, <1>12, <1>13 DEF IInv

\* LEMMA.  pop, whatever it finds; it plays only the packet numbered lowest_fbn.
LEMMA PopInv ==
  ASSUME IInv, pop
  PROVE  /\ IInv'
         /\ popPacket => played' = lowest_fbn
<1>1. CASE popPacket
  <2>1. Head(packets) = packets[1] /\ 1 \in 1 .. Len(packets)
    BY <1>1, EmptySeq, LenProperties, HeadTailProperties DEF popPacket, IInv, TypeOK
  <2>2. Head(packets).fbn = lowest_fbn
    <3>1. Head(packets).fbn = lowest_fbn + (1 - 1) * psize
      BY <1>1, <2>1 DEF popPacket, IInv, SlotsInOrder, Number
    <3> QED BY <3>1 DEF IInv, TypeOK
  <2> QED BY <1>1, <2>2, DropInv DEF popPacket
<1>2. CASE popNothing
  <2>1. CASE packets # <<>>
    BY <1>2, <2>1, DropInv DEF popNothing, popPacket
  <2>2. CASE packets = <<>>
    BY <1>2, <2>2, StutterInv DEF popNothing, popPacket, bufferVars
  <2> QED BY <2>1, <2>2
<1> QED BY <1>1, <1>2 DEF pop

\* LEMMA.  missingPacketsManager takes the numbers to ask for: all are of empty
\* slots of the list, so below the number the next slot gets.
LEMMA TakeInv ==
  ASSUME IInv, takeMissing
  PROVE  IInv'
<1>1. /\ asked' = asked \cup missing_packets /\ missing_packets' = {}
      /\ UNCHANGED <<packets, missing_map, lowest_fbn, ready, size, psize, pushing, fill,
                     undefined, played>>
  BY DEF takeMissing
<1>2. \A n \in missing_packets : n < Top
  <2> TAKE n \in missing_packets
  <2>1. Shape(packets, lowest_fbn, psize, missing_map) /\ n \in missing_map
    BY ShapeOfBuffer DEF IInv, RequestsStillMissing
  <2>2. PICK i \in 1 .. Len(packets) : n = lowest_fbn + (i - 1) * psize
    BY <2>1 DEF Shape
  <2>3. lowest_fbn \in Nat /\ psize \in Nat \ {0} /\ Len(packets) \in Nat
    BY <2>2, EmptySeq, LenProperties DEF IInv, TypeOK, NumbersInv
  <2>4. (i - 1) * psize < Len(packets) * psize
    BY <2>2, <2>3
  <2> QED BY <2>2, <2>3, <2>4 DEF Top
<1>3. TypeOK'
  BY <1>1 DEF IInv, TypeOK
<1>4. NumbersInv'
  BY <1>1, <1>2 DEF IInv, NumbersInv, Top
<1> QED
  BY <1>1, <1>3, <1>4
     DEF IInv, SlotsInOrder, MissingMapExact, Number, RequestsStillMissing, RequestedOnce,
         WithinSize, BackIsPacket, back, PushInv, Top

\* LEMMA.  Every step and every stutter keeps the invariant.
LEMMA NextInv == IInv /\ [Next]_bufferVars => IInv'
<1> SUFFICES ASSUME IInv, [Next]_bufferVars PROVE IInv'
  OBVIOUS
<1>1. CASE UNCHANGED bufferVars
  BY <1>1, StutterInv
<1>2. CASE Next
  BY <1>2, ClearInv, ResetInv, PushInvariant, FillInv, InsertPushedInv, PopInv, TakeInv DEF Next
<1> QED BY <1>1, <1>2

\* THEOREM.  The invariant holds in every state, for all packets and sizes.
THEOREM BufferInvariant == Spec => []IInv
  BY InitInv, NextInv, PTL DEF Spec

\* THEOREM.  The fields of AudioBuffer keep their types.
THEOREM BufferTypeCorrect == Spec => []TypeOK
<1>1. IInv => TypeOK
  BY DEF IInv
<1> QED BY <1>1, BufferInvariant, PTL

\* THEOREM.  The list is gapless and in order (insertPacket, dropPacket, pop).
THEOREM ListInOrder == Spec => []SlotsInOrder
<1>1. IInv => SlotsInOrder
  BY DEF IInv
<1> QED BY <1>1, BufferInvariant, PTL

\* THEOREM.  The map names the empty slots exactly (push, dropPacket).
THEOREM MapExact == Spec => []MissingMapExact
<1>1. IInv => MissingMapExact
  BY DEF IInv
<1> QED BY <1>1, BufferInvariant, PTL

\* THEOREM.  Requests are only made for empty slots of the current buffer, and
\* each at most once (push, dropPacket, missingPacketsManager).
THEOREM RequestsSound == Spec => []RequestsAreSound
<1>1. IInv => RequestsAreSound
  BY DEF IInv, RequestsAreSound
<1> QED BY <1>1, BufferInvariant, PTL

\* THEOREM.  The list stays within its size (insertPacket).
THEOREM ListBounded == Spec => []WithinSize
<1>1. IInv => WithinSize
  BY DEF IInv
<1> QED BY <1>1, BufferInvariant, PTL

\* THEOREM.  push finds a packet in the last slot whenever it looks there, after any
\* pushes, pops and resets (it does not test the optional it reads).
THEOREM LastIsPacket == Spec => []BackIsPacket
<1>1. IInv => BackIsPacket
  BY DEF IInv
<1> QED BY <1>1, BufferInvariant, PTL

\* THEOREM.  Within a session every pop plays a higher number than the pop before it,
\* and leaves only higher ones (pop): what was played is below lowest_fbn by the
\* invariant, and pop plays lowest_fbn.
THEOREM PlaybackInOrder == Spec => PlayedInOrder
<1> DEFINE Ordered == popPacket => played < played' /\ played' < lowest_fbn'
<1>1. IInv /\ [Next]_bufferVars => [Ordered]_bufferVars
  <2> SUFFICES ASSUME IInv, popPacket PROVE Ordered
    OBVIOUS
  <2>1. psize > 0 /\ psize \in Nat /\ lowest_fbn \in Nat
    BY DEF IInv, TypeOK, NumbersInv, popPacket
  <2>2. played' = lowest_fbn
    BY <2>1, PopInv DEF pop
  <2>3. lowest_fbn' = lowest_fbn + psize
    BY DEF popPacket, dropPacket
  <2>4. played < lowest_fbn
    BY <2>1 DEF IInv, NumbersInv
  <2> QED BY <2>1, <2>2, <2>3, <2>4
<1> QED BY <1>1, BufferInvariant, PTL DEF Spec, PlayedInOrder

===============================================================================
