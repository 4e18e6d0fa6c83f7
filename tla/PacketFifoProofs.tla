--------------------------- MODULE PacketFifoProofs ---------------------------
(***************************************************************************)
(* Proofs about PacketFifo, for every number of slots and packet size.     *)
(*                                                                         *)
(* The runs check WindowIsServed directly.  It is not inductive: that      *)
(* getPacket finds the right slot depends on where the packets lie in the  *)
(* ring.  RingInv says where: the k-th packet before the last is k slots   *)
(* before the last one written, counting backwards around the ring.        *)
(***************************************************************************)
EXTENDS PacketFifo, TLAPS

\* The slot k positions before the one written last.
SlotBack(k) == IF k < cursor THEN cursor - 1 - k ELSE Size + cursor - 1 - k

RingInv ==
  /\ TypeOK
  /\ fbn % PSize = 0
  /\ fbn = 0 => /\ last_fbn = 0
                /\ data = [i \in 0 .. Size - 1 |-> Blank]
  /\ fbn > 0 => last_fbn = fbn - PSize
  /\ \A k \in 0 .. Size - 1 :
       (k + 1) * PSize <= fbn => data[SlotBack(k)] = fbn - (k + 1) * PSize

-------------------------------------------------------------------------------
(* Arithmetic.                                                             *)

\* LEMMA.  A cursor stepped past the last slot wraps to the first (push).
LEMMA CursorWraps ==
  ASSUME NEW c \in 0 .. Size - 1
  PROVE  (c + 1) % Size = IF c + 1 = Size THEN 0 ELSE c + 1
  BY SizeAssumption

\* LEMMA.  Counting back from the cursor modulo the size (getPacket) is the
\* two-case position of SlotBack.
LEMMA IndexIsSlotBack ==
  ASSUME NEW c \in 0 .. Size - 1, NEW k \in 0 .. Size - 1
  PROVE  (Size + c - 1 - k) % Size = IF k < c THEN c - 1 - k ELSE Size + c - 1 - k
  BY SizeAssumption

\* LEMMA.  A multiple of the packet size is a number of packets.
LEMMA Multiple ==
  ASSUME NEW f \in Nat, f % PSize = 0
  PROVE  \E k \in Nat : f = k * PSize
  BY PSizeAssumption

\* LEMMA.  Dividing a number of packets' bytes by the packet size counts them.
LEMMA CountPackets ==
  ASSUME NEW k \in Nat
  PROVE  (k * PSize) \div PSize = k /\ (k * PSize) % PSize = 0
  BY PSizeAssumption

\* LEMMA.  Packets are ordered as their byte numbers are.
LEMMA OrderOfPackets ==
  ASSUME NEW j \in Nat, NEW k \in Nat
  PROVE  /\ j * PSize < k * PSize <=> j < k
         /\ j * PSize <= k * PSize <=> j <= k
         /\ k * PSize - j * PSize = (k - j) * PSize
         /\ (k + 1) * PSize = k * PSize + PSize
  BY PSizeAssumption

\* LEMMA.  The next packet is numbered in multiples of the packet size too.
LEMMA NextPacket ==
  ASSUME NEW f \in Nat, f % PSize = 0
  PROVE  (f + PSize) % PSize = 0 /\ f + PSize > 0
<1>1. PICK k \in Nat : f = k * PSize
  BY Multiple
<1>2. f + PSize = (k + 1) * PSize
  BY <1>1, OrderOfPackets
<1>3. k + 1 \in Nat
  OBVIOUS
<1>4. (f + PSize) % PSize = 0
  BY <1>2, <1>3, CountPackets
<1>5. QED  BY <1>4, PSizeAssumption

-------------------------------------------------------------------------------
(* The invariant.                                                          *)

\* LEMMA.  SlotBack names a slot, and different positions different slots.
LEMMA SlotBackIsSlot ==
  ASSUME cursor \in 0 .. Size - 1, NEW k \in 0 .. Size - 1
  PROVE  /\ SlotBack(k) \in 0 .. Size - 1
         /\ \A j \in 0 .. Size - 1 : SlotBack(j) = SlotBack(k) => j = k
  BY SizeAssumption DEF SlotBack

\* LEMMA.  push leaves the new packet at position 0 and moves every other
\* packet one position back; the one it overwrites was the oldest.
LEMMA PushShifts ==
  ASSUME TypeOK, NEW ap \in Nat, push(ap)
  PROVE  /\ cursor' \in 0 .. Size - 1
         /\ data'[SlotBack(0)'] = ap
         /\ \A k \in 1 .. Size - 1 : data'[SlotBack(k)'] = data[SlotBack(k - 1)]
<1>1. cursor' = IF cursor + 1 = Size THEN 0 ELSE cursor + 1
  BY CursorWraps DEF TypeOK, push
<1>2. cursor' \in 0 .. Size - 1
  BY <1>1, SizeAssumption DEF TypeOK
<1>3. SlotBack(0)' = cursor
  BY <1>1, SizeAssumption DEF SlotBack, TypeOK
<1>4. data'[SlotBack(0)'] = ap
  BY <1>3 DEF push, TypeOK
<1>5. ASSUME NEW k \in 1 .. Size - 1
      PROVE  data'[SlotBack(k)'] = data[SlotBack(k - 1)]
  <2>1. SlotBack(k)' = SlotBack(k - 1)
    BY <1>1, SizeAssumption DEF SlotBack, TypeOK
  <2>2. SlotBack(k - 1) \in 0 .. Size - 1 /\ SlotBack(k - 1) # cursor
    BY SizeAssumption DEF SlotBack, TypeOK
  <2>3. QED  BY <2>1, <2>2 DEF push, TypeOK
<1>6. QED  BY <1>2, <1>4, <1>5

LEMMA InitRing == Init => RingInv
<1> SUFFICES ASSUME Init PROVE RingInv
  OBVIOUS
<1>1. TypeOK
  BY SizeAssumption DEF Init, PacketFifo, TypeOK
<1>2. \A k \in 0 .. Size - 1 : ~((k + 1) * PSize <= fbn)
  BY SizeAssumption, PSizeAssumption DEF Init
<1>3. fbn % PSize = 0
  BY PSizeAssumption DEF Init
<1>4. QED  BY <1>1, <1>2, <1>3 DEF RingInv, Init, PacketFifo

\* LEMMA.  What getPacket returns has the type of an answer.
LEMMA AnswerType ==
  ASSUME TypeOK, NEW f \in Nat
  PROVE  getPacket(f) \in Nat \cup {Blank, NoPacket}
<1>1. CASE hasPacket(f)
  <2>1. PICK k \in Nat : (last_fbn - f) \div PSize = k /\ k < Size
    BY <1>1, SizeAssumption, PSizeAssumption DEF hasPacket, TypeOK
  <2>2. packet_index(f) \in 0 .. Size - 1
    BY <2>1, SizeAssumption DEF packet_index, TypeOK
  <2>3. QED  BY <1>1, <2>2 DEF getPacket, TypeOK
<1>2. CASE ~hasPacket(f)
  BY <1>2 DEF getPacket
<1>3. QED  BY <1>1, <1>2

LEMMA StepRing == RingInv /\ [Next]_vars => RingInv'
<1> SUFFICES ASSUME RingInv, [Next]_vars PROVE RingInv'
  OBVIOUS
<1> USE DEF RingInv
<1>1. CASE readPacket
  <2> USE <1>1 DEF readPacket
  <2>1. push(fbn) /\ fbn \in Nat /\ fbn' = fbn + PSize
    BY DEF TypeOK
  <2>2. cursor' \in 0 .. Size - 1
    BY <2>1, PushShifts
  <2>3. TypeOK'
    BY <2>1, <2>2, PSizeAssumption DEF TypeOK, push
  <2>4. fbn' % PSize = 0 /\ fbn' > 0 /\ last_fbn' = fbn' - PSize
    <3>1. fbn % PSize = 0
      OBVIOUS
    <3>2. last_fbn' = fbn
      BY <2>1 DEF push
    <3>3. (fbn + PSize) % PSize = 0 /\ fbn + PSize > 0
      BY ONLY <2>1, <3>1, NextPacket
    <3>4. QED  BY ONLY <2>1, <3>2, <3>3, PSizeAssumption
  <2>5. ASSUME NEW k \in 0 .. Size - 1, (k + 1) * PSize <= fbn'
        PROVE  data'[SlotBack(k)'] = fbn' - (k + 1) * PSize
    <3>1. CASE k = 0
      BY <2>1, <3>1, PushShifts, PSizeAssumption
    <3>2. CASE k # 0
      <4>1. data'[SlotBack(k)'] = data[SlotBack(k - 1)]
        BY <2>1, <3>2, PushShifts, SizeAssumption
      <4>2. (k - 1) \in 0 .. Size - 1 /\ ((k - 1) + 1) * PSize <= fbn
        BY <2>1, <2>5, <3>2, PSizeAssumption, SizeAssumption
      <4>3. data[SlotBack(k - 1)] = fbn - ((k - 1) + 1) * PSize
        BY <4>2
      <4>4. QED  BY <2>1, <4>1, <4>3, PSizeAssumption
    <3>3. QED  BY <3>1, <3>2
  <2>6. QED  BY <2>3, <2>4, <2>5
<1>2. ASSUME NEW f \in Asked, Get(f)
      PROVE  RingInv'
  <2>1. getPacket(f) \in Nat \cup {Blank, NoPacket}
    BY AnswerType, AskedAssumption
  <2>2. TypeOK'
    BY <1>2, <2>1, AskedAssumption DEF TypeOK, Get, fifoVars
  <2>3. QED  BY <1>2, <2>2 DEF Get, fifoVars, SlotBack
<1>3. CASE UNCHANGED vars
  BY <1>3 DEF vars, TypeOK, SlotBack
<1>4. QED  BY <1>1, <1>2, <1>3 DEF Next

\* THEOREM.  The cursor never leaves the vector and the ring keeps its shape.
THEOREM RingInvariant == Spec => []RingInv
  BY InitRing, StepRing, PTL DEF Spec

\* THEOREM.  Type correctness of the packet store.
THEOREM FifoTypeCorrect == Spec => []TypeOK
<1>1. RingInv => TypeOK  BY DEF RingInv
<1>2. QED  BY <1>1, RingInvariant, PTL

-------------------------------------------------------------------------------
(* The window is served.                                                   *)

LEMMA RingServesWindow ==
  ASSUME RingInv, fbn > 0, NEW f \in Nat
  PROVE  getPacket(f) = IF Retained(f) THEN f ELSE NoPacket
<1> USE DEF RingInv
<1>1. fbn \in Nat /\ cursor \in 0 .. Size - 1
  BY DEF TypeOK
<1>2. PICK n \in Nat : fbn = n * PSize
  BY <1>1, Multiple
<1>3. n > 0 /\ last_fbn = (n - 1) * PSize
  BY <1>1, <1>2, PSizeAssumption
<1>4. CASE f % PSize # 0
  BY <1>4 DEF getPacket, hasPacket, Retained
<1>5. CASE f % PSize = 0
  <2>1. PICK m \in Nat : f = m * PSize
    BY <1>5, Multiple
  <2>2. hasPacket(f) <=> m <= n - 1 /\ n - 1 - m < Size
    BY <1>3, <1>5, <2>1, SizeAssumption, PSizeAssumption DEF hasPacket
  <2>3. Retained(f) <=> m < n /\ n - m <= Size
    BY <1>2, <1>5, <2>1, SizeAssumption, PSizeAssumption DEF Retained
  <2>4. CASE ~hasPacket(f)
    BY <2>2, <2>3, <2>4, <1>3, SizeAssumption DEF getPacket
  <2>5. CASE hasPacket(f)
    <3> DEFINE k == n - 1 - m
    <3>1. k \in 0 .. Size - 1
      BY <2>2, <2>5, <1>3, SizeAssumption
    <3>2. last_fbn - f = k * PSize
      BY <1>3, <2>1, PSizeAssumption
    <3>3. (last_fbn - f) \div PSize = k
      BY <3>1, <3>2, CountPackets
    <3>4. packet_index(f) = SlotBack(k)
      BY <1>1, <3>1, <3>3, IndexIsSlotBack DEF packet_index, SlotBack
    <3>5. (k + 1) * PSize = fbn - f /\ (k + 1) * PSize <= fbn
      BY <1>2, <2>1, <3>1, PSizeAssumption
    <3>6. data[SlotBack(k)] = fbn - (k + 1) * PSize
      BY <3>1, <3>5
    <3>7. data[SlotBack(k)] = f
      BY <3>5, <3>6, <1>1
    <3>8. Retained(f)
      BY <2>2, <2>3, <2>5, <1>3, SizeAssumption
    <3>9. QED  BY <2>5, <3>4, <3>7, <3>8 DEF getPacket
  <2>6. QED  BY <2>4, <2>5
<1>6. QED  BY <1>4, <1>5

\* THEOREM.  For every ring size and packet size, getPacket returns the packet
\* asked for while it is one of the Size most recent, and nothing afterwards.
THEOREM WindowServed == Spec => []WindowIsServed
<1>1. RingInv => WindowIsServed
  BY RingServesWindow, AskedAssumption DEF WindowIsServed
<1>2. QED  BY <1>1, RingInvariant, PTL

-------------------------------------------------------------------------------
(* Refinement.                                                             *)

LEMMA BlankBeforeFirst ==
  ASSUME RingInv, fbn = 0, NEW f \in Nat
  PROVE  getPacket(f) = IF f = 0 THEN Blank ELSE NoPacket
<1> USE DEF RingInv
<1>1. CASE f = 0
  <2>1. hasPacket(f)
    BY <1>1, SizeAssumption, PSizeAssumption DEF hasPacket
  <2>2. (last_fbn - f) \div PSize = 0
    BY <1>1, PSizeAssumption
  <2>3. packet_index(f) = SlotBack(0)
    <3>1. cursor \in 0 .. Size - 1 /\ 0 \in 0 .. Size - 1
      BY SizeAssumption DEF TypeOK
    <3>2. (Size + cursor - 1 - 0) % Size = SlotBack(0)
      BY <3>1, IndexIsSlotBack DEF SlotBack
    <3>3. QED  BY <2>2, <3>2 DEF packet_index
  <2>4. SlotBack(0) \in 0 .. Size - 1
    BY SlotBackIsSlot, SizeAssumption DEF TypeOK
  <2>5. QED  BY <1>1, <2>1, <2>3, <2>4 DEF getPacket
<1>2. CASE f # 0
  BY <1>2 DEF getPacket, hasPacket
<1>3. QED  BY <1>1, <1>2

\* THEOREM.  The ring buffer implements the abstract store: pushing is
\* producing, and every answer is the one the abstract store gives.
THEOREM FifoImplementsWindow == Spec => ImplementsWindow
<1>1. Init => Window!Init
  BY DEF Init, Window!Init
<1>2. RingInv /\ [Next]_vars => [Window!Next]_(Window!vars)
  <2> SUFFICES ASSUME RingInv, [Next]_vars PROVE [Window!Next]_(Window!vars)
    OBVIOUS
  <2>1. CASE readPacket
    BY <2>1 DEF readPacket, Window!Next, Window!Produce
  <2>2. ASSUME NEW f \in Asked, Get(f)
        PROVE  Window!Get(f)
    <3>1. f \in Nat
      BY AskedAssumption
    <3>2. CASE fbn > 0
      BY <2>2, <3>1, <3>2, RingServesWindow
         DEF Get, Window!Get, Retained, Window!Retained, RingInv, TypeOK
    <3>3. CASE fbn = 0
      BY <2>2, <3>1, <3>3, BlankBeforeFirst DEF Get, Window!Get, Window!Retained
    <3>4. QED  BY <3>2, <3>3 DEF RingInv, TypeOK
  <2>3. CASE UNCHANGED vars
    BY <2>3 DEF vars, Window!vars
  <2>4. QED  BY <2>1, <2>2, <2>3 DEF Next, Window!Next
<1>3. QED  BY <1>1, <1>2, RingInvariant, PTL DEF Spec, ImplementsWindow, Window!Spec
===============================================================================
