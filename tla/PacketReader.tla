----------------------------- MODULE PacketReader -----------------------------
(***************************************************************************)
(* PacketReader (audio-transmission.h/.cc): packets made of the sender's   *)
(* input, by reads of any length, and pushed to the PacketFifo.            *)
(*                                                                         *)
(* A byte of the input is its position in it.  readPacket reads while      *)
(* cursor < psize - 1, so a read may end one byte short of a packet; its   *)
(* last byte is then what the buffer held.  The end of the input, and an   *)
(* error, are in Sender: nothing is read after them.                       *)
(***************************************************************************)
EXTENDS PacketFifo, Sequences

ASSUME ReadsAssumption == PSize > 1    \* with 1 the loop never reads

VARIABLES buffer,       \* PacketReader::buffer
          read_cursor,  \* PacketReader::cursor
          consumed,     \* bytes read from the input so far
          made          \* the data of the packets made so far

readerVars == <<buffer, read_cursor, consumed, made>>

Garbage == 0    \* what new uint8_t[psize] holds

ReaderInit ==
  /\ Init
  /\ buffer = [i \in 1 .. PSize |-> Garbage]
  /\ read_cursor = 0
  /\ consumed = 0
  /\ made = <<>>

Full_TwoShort == read_cursor >= PSize - 2

\* The condition of the loop, negated.
Full == read_cursor >= PSize - 1

\* read returns count bytes, one at least and no more than the buffer has room for.
readInput(count) ==
  /\ fbn < MaxBytes
  /\ ~Full
  /\ buffer' = [i \in 1 .. PSize |->
                  IF i \in read_cursor + 1 .. read_cursor + count
                  THEN consumed + i - read_cursor ELSE buffer[i]]
  /\ read_cursor' = read_cursor + count
  /\ consumed' = consumed + count
  /\ UNCHANGED <<vars, made>>

makePacket ==
  /\ Full
  /\ readPacket
  /\ made' = Append(made, buffer)
  /\ read_cursor' = 0
  /\ UNCHANGED <<buffer, consumed>>

ReaderNext ==
  \/ \E count \in 1 .. PSize - read_cursor : readInput(count)
  \/ makePacket
  \/ \E f \in Asked : Get(f) /\ UNCHANGED readerVars

ReaderSpec == ReaderInit /\ [][ReaderNext]_<<vars, readerVars>>

-------------------------------------------------------------------------------

\* Bytes of the input in the packets before the k-th.
Before(k) ==
  IF k = 1 THEN 0
  ELSE LET bytes == made[k - 1]
       IN  IF bytes[PSize] > bytes[PSize - 1] THEN bytes[PSize] ELSE bytes[PSize - 1]

\* SAFETY.  However the input comes in, its bytes go into the packets in order,
\* each once and none left out.  Only the last byte of a packet can be another: then
\* it is the last byte of the packet before, and the input is from there on one byte
\* behind the packets' numbers.
InputInPackets ==
  /\ \A k \in DOMAIN made :
       /\ \A i \in 1 .. PSize - 1 : made[k][i] = Before(k) + i
       /\ made[k][PSize] \in
            {Before(k) + PSize, IF k = 1 THEN Garbage ELSE made[k - 1][PSize]}
  /\ consumed = Before(Len(made) + 1) + read_cursor
===============================================================================
