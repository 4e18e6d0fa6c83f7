-------------------------- MODULE PacketReaderProofs --------------------------
(***************************************************************************)
(* Proofs about PacketReader, for packets of any length, and for what it   *)
(* drives, the PacketFifo, whose theorems carry over.                      *)
(***************************************************************************)
EXTENDS PacketReader, PacketFifoProofs, SequenceTheorems

Bytes == [1 .. PSize -> Nat]

\* The last byte of the packet before the one being read.
LastByte(k) == IF k = 1 THEN Garbage ELSE made[k - 1][PSize]

\* The bytes of the packet being read: those read are the next of the input, and the
\* last one is, until it is read, that of the packet before.
ReadingInv ==
  /\ buffer \in Bytes
  /\ read_cursor \in 0 .. PSize
  /\ \A i \in 1 .. read_cursor : buffer[i] = Before(Len(made) + 1) + i
  /\ read_cursor < PSize => buffer[PSize] = LastByte(Len(made) + 1)

IInv ==
  /\ made \in Seq(Bytes)
  /\ consumed \in Nat
  /\ ReadingInv
  /\ InputInPackets

-------------------------------------------------------------------------------

\* LEMMA.  How much of the input is in the packets before, which is a number, and no
\* less than their last byte.
LEMMA BeforeType ==
  ASSUME made \in Seq(Bytes), NEW k \in 1 .. Len(made) + 1
  PROVE  Before(k) \in Nat /\ LastByte(k) \in Nat /\ LastByte(k) <= Before(k)
<1>1. CASE k = 1
  BY <1>1 DEF Before, LastByte, Garbage
<1>2. CASE k # 1
  <2>1. k - 1 \in 1 .. Len(made)
    BY <1>2
  <2>2. made[k - 1] \in [1 .. PSize -> Nat]
    BY <2>1, ElementOfSeq DEF Bytes
  <2>3. PSize \in 1 .. PSize /\ PSize - 1 \in 1 .. PSize
    BY PSizeAssumption, ReadsAssumption
  <2>4. made[k - 1][PSize] \in Nat /\ made[k - 1][PSize - 1] \in Nat
    BY <2>2, <2>3
  <2>5. QED  BY <1>2, <2>4 DEF Before, LastByte
<1>3. QED  BY <1>1, <1>2

LEMMA InitInv == ReaderInit => IInv
<1> SUFFICES ASSUME ReaderInit PROVE IInv
  OBVIOUS
<1>1. made = <<>> /\ Len(made) = 0 /\ made \in Seq(Bytes)
  BY DEF ReaderInit
<1>2. Before(Len(made) + 1) = 0 /\ LastByte(Len(made) + 1) = 0
  BY <1>1 DEF Before, LastByte, Garbage
<1>3. ReadingInv
  BY <1>1, <1>2, PSizeAssumption DEF ReadingInv, ReaderInit, Bytes, Garbage
<1>4. InputInPackets
  BY <1>1, <1>2 DEF InputInPackets, ReaderInit
<1>5. QED  BY <1>1, <1>3, <1>4 DEF IInv, ReaderInit

\* LEMMA.  A read puts the next bytes of the input behind those that are there.
LEMMA ReadInv ==
  ASSUME IInv, NEW count \in 1 .. PSize - read_cursor, readInput(count)
  PROVE  IInv'
<1>1. /\ made' = made
      /\ consumed' = consumed + count
      /\ read_cursor' = read_cursor + count
      /\ buffer' = [i \in 1 .. PSize |->
                      IF i \in read_cursor + 1 .. read_cursor + count
                      THEN consumed + i - read_cursor ELSE buffer[i]]
  BY DEF readInput
<1>2. /\ PSize \in Nat /\ read_cursor \in 0 .. PSize /\ count \in Nat /\ consumed \in Nat
      /\ read_cursor + count \in 0 .. PSize /\ Len(made) \in Nat
  BY PSizeAssumption DEF IInv, ReadingInv
<1> DEFINE B == Before(Len(made) + 1)
<1>3. B \in Nat /\ consumed = B + read_cursor
  BY <1>2, BeforeType DEF IInv, InputInPackets
<1>4. B' = B /\ LastByte(Len(made) + 1)' = LastByte(Len(made) + 1)
  BY <1>1 DEF Before, LastByte
<1>5. ReadingInv'
  <2>1. buffer' \in Bytes
    BY <1>1, <1>2 DEF IInv, ReadingInv, Bytes
  <2>2. ASSUME NEW i \in 1 .. read_cursor'
        PROVE  buffer'[i] = B + i
    BY <1>1, <1>2, <1>3 DEF IInv, ReadingInv
  <2>3. read_cursor' < PSize => buffer'[PSize] = LastByte(Len(made) + 1)
    BY <1>1, <1>2 DEF IInv, ReadingInv
  <2> HIDE DEF B
  <2>4. QED  BY <1>1, <1>2, <1>4, <2>1, <2>2, <2>3 DEF ReadingInv, B
<1>6. InputInPackets'
  <2>1. \A k \in DOMAIN made : Before(k)' = Before(k)
    BY <1>1 DEF Before
  <2>2. \A k \in DOMAIN made :
          /\ \A i \in 1 .. PSize - 1 : made[k][i] = Before(k) + i
          /\ made[k][PSize] \in {Before(k) + PSize,
                                IF k = 1 THEN Garbage ELSE made[k - 1][PSize]}
    BY DEF IInv, InputInPackets
  <2>3. consumed' = B' + read_cursor'
    <3> HIDE DEF B
    <3>1. QED  BY <1>1, <1>2, <1>3, <1>4
  <2>4. QED  BY <1>1, <2>1, <2>2, <2>3 DEF InputInPackets
<1>7. QED  BY <1>1, <1>2, <1>5, <1>6 DEF IInv

\* LEMMA.  A packet is the next bytes of the input, but for its last one if that has
\* not been read.
LEMMA MakeInv ==
  ASSUME IInv, makePacket
  PROVE  IInv'
<1>0. PICK n \in Nat, B \in Nat : n = Len(made) /\ B = Before(n + 1)
  <2>1. Len(made) \in Nat /\ Before(Len(made) + 1) \in Nat
    BY BeforeType DEF IInv
  <2>2. QED  BY <2>1
<1>1. /\ made' = Append(made, buffer) /\ read_cursor' = 0
      /\ UNCHANGED <<buffer, consumed>> /\ read_cursor >= PSize - 1
  BY DEF makePacket, Full
<1>2. /\ PSize \in Nat /\ PSize > 1 /\ read_cursor \in 0 .. PSize
      /\ n \in Nat /\ consumed \in Nat /\ buffer \in Bytes /\ made \in Seq(Bytes)
  BY PSizeAssumption, ReadsAssumption DEF IInv, ReadingInv
<1>3. B \in Nat /\ LastByte(n + 1) \in Nat /\ LastByte(n + 1) <= B
      /\ consumed = B + read_cursor
  BY <1>0, <1>2, BeforeType DEF IInv, InputInPackets
<1>4. \A i \in 1 .. PSize - 1 : buffer[i] = B + i
  BY <1>0, <1>1, <1>2 DEF IInv, ReadingInv
<1>5. buffer[PSize] = IF read_cursor = PSize THEN B + PSize ELSE LastByte(n + 1)
  BY <1>0, <1>1, <1>2 DEF IInv, ReadingInv
<1>6. /\ made' \in Seq(Bytes) /\ Len(made') = n + 1 /\ made'[n + 1] = buffer
      /\ \A k \in 1 .. n : made'[k] = made[k]
  BY <1>0, <1>1, <1>2, AppendProperties
<1>7. \A k \in 1 .. n + 1 : Before(k)' = Before(k) /\ LastByte(k)' = LastByte(k)
  <2>1. ASSUME NEW k \in 1 .. n + 1, k # 1
        PROVE  k - 1 \in 1 .. n /\ made'[k - 1] = made[k - 1]
    BY ONLY <1>2, <1>6, <2>1
  <2>2. QED  BY <2>1 DEF Before, LastByte
<1>8. Before(n + 2)' = consumed /\ LastByte(n + 2)' = buffer[PSize]
  <2>1. buffer[PSize - 1] = B + PSize - 1
    BY <1>2, <1>4
  <2>2. Before(n + 2)' = IF buffer[PSize] > buffer[PSize - 1]
                         THEN buffer[PSize] ELSE buffer[PSize - 1]
    BY <1>2, <1>6 DEF Before
  <2>3. LastByte(n + 2)' = buffer[PSize]
    BY <1>2, <1>6 DEF LastByte
  <2>4. CASE read_cursor = PSize
    BY <1>2, <1>3, <1>5, <2>1, <2>2, <2>3, <2>4
  <2>5. CASE read_cursor # PSize
    <3>1. read_cursor = PSize - 1
      BY <1>1, <1>2, <2>5
    <3>2. buffer[PSize] = LastByte(n + 1) /\ LastByte(n + 1) < B + PSize - 1
      BY <1>2, <1>3, <1>5, <2>5
    <3>3. ~(buffer[PSize] > buffer[PSize - 1])
      BY <1>2, <1>3, <2>1, <3>2
    <3>4. QED  BY <1>2, <1>3, <2>1, <2>2, <2>3, <3>1, <3>3
  <2>6. QED  BY <2>4, <2>5
<1>9. InputInPackets'
  <2>1. ASSUME NEW k \in DOMAIN made'
        PROVE  /\ \A i \in 1 .. PSize - 1 : made'[k][i] = Before(k)' + i
               /\ made'[k][PSize] \in {Before(k)' + PSize, LastByte(k)'}
    <3>1. k \in 1 .. n + 1
      BY <1>2, <1>6
    <3>2. CASE k = n + 1
      BY <1>0, <1>2, <1>4, <1>5, <1>6, <1>7, <3>1, <3>2
    <3>3. CASE k # n + 1
      <4>1. k \in 1 .. n /\ k \in DOMAIN made
        BY <1>0, <1>2, <3>1, <3>3
      <4>2. /\ \A i \in 1 .. PSize - 1 : made[k][i] = Before(k) + i
            /\ made[k][PSize] \in {Before(k) + PSize, LastByte(k)}
        BY <4>1 DEF IInv, InputInPackets, LastByte
      <4>3. made'[k] = made[k] /\ Before(k)' = Before(k) /\ LastByte(k)' = LastByte(k)
        BY <1>6, <1>7, <3>1, <4>1
      <4>4. QED  BY <4>2, <4>3
    <3>4. QED  BY <3>2, <3>3
  <2>2. consumed' = Before(Len(made) + 1)' + read_cursor'
    BY <1>0, <1>1, <1>2, <1>6, <1>8
  <2>3. QED  BY <2>1, <2>2 DEF InputInPackets, LastByte
<1>10. ReadingInv'
  BY <1>0, <1>1, <1>2, <1>6, <1>8 DEF ReadingInv
<1>11. QED  BY <1>1, <1>2, <1>6, <1>9, <1>10 DEF IInv

\* THEOREM.  Where the bytes of the input are, while a packet is read and afterwards.
THEOREM ReaderInvariant == ReaderSpec => []IInv
<1>1. ASSUME IInv, [ReaderNext]_<<vars, readerVars>>
      PROVE  IInv'
  <2>1. CASE UNCHANGED readerVars
    BY <1>1, <2>1 DEF readerVars, IInv, ReadingInv, InputInPackets, Before, LastByte
  <2>2. QED  BY <1>1, <2>1, ReadInv, MakeInv DEF ReaderNext
<1>2. QED  BY InitInv, <1>1, PTL DEF ReaderSpec

\* THEOREM.  However the input is cut into reads, its bytes come into the packets in order,
\* each once, and none is left out; only the last byte of a packet can be a stale one.
THEOREM InputIsKept == ReaderSpec => []InputInPackets
<1>1. IInv => InputInPackets
  BY DEF IInv
<1>2. QED  BY <1>1, ReaderInvariant, PTL

\* THEOREM.  The reader drives the store as it is specified, so what holds of the
\* store holds when the reader feeds it: it implements the window of the last packets.
THEOREM ReaderFeedsWindow == ReaderSpec => []WindowIsServed /\ ImplementsWindow
<1>1. ReaderInit => Init
  BY DEF ReaderInit
<1>2. [ReaderNext]_<<vars, readerVars>> => [Next]_vars
  BY DEF ReaderNext, readInput, makePacket, Next
<1>3. ReaderSpec => Spec
  BY <1>1, <1>2, PTL DEF ReaderSpec, Spec
<1>4. QED  BY <1>3, WindowServed, FifoImplementsWindow
===============================================================================
