------------------------------ MODULE PacketFifo ------------------------------
(***************************************************************************)
(* PacketFifo (audio-transmission.h/.cc), the ring buffer in which the     *)
(* sender keeps the packets it has broadcast so that it can send them      *)
(* again, fed by PacketReader, which numbers the packets.                  *)
(*                                                                         *)
(* A packet is identified by its first_byte_num: within one run of the     *)
(* sender the session and the payload are functions of it.  Every access   *)
(* to the vector is under its mutex, so push and getPacket are one step.   *)
(***************************************************************************)
EXTENDS Integers

CONSTANTS Size,      \* slots: Configuration::fsize / Configuration::psize
          PSize,     \* Configuration::psize
          MaxBytes,  \* bound: the producer stops at this byte number
          Asked,     \* byte numbers getPacket is called with
          Blank,     \* AudioPacket(), what the vector holds at first
          NoPacket   \* the empty std::optional

ASSUME SizeAssumption == Size \in Nat \ {0}
ASSUME PSizeAssumption == PSize \in Nat \ {0}
ASSUME MaxBytesAssumption == MaxBytes \in Nat
ASSUME AskedAssumption == Asked \subseteq Nat
ASSUME MarkerAssumption == Blank # NoPacket /\ {Blank, NoPacket} \cap Nat = {}

VARIABLES data,      \* the slots
          cursor,    \* the slot the next packet goes to
          last_fbn,  \* first_byte_num of the last packet
          fbn,       \* PacketReader::fbn, the number of the next packet
          answer     \* the last question to the store and its answer

fifoVars == <<data, cursor, last_fbn>>
vars == <<data, cursor, last_fbn, fbn, answer>>

-------------------------------------------------------------------------------

PacketFifo ==
  /\ data = [i \in 0 .. Size - 1 |-> Blank]
  /\ cursor = 0
  /\ last_fbn = 0

push_NoWrap(ap) ==
  /\ data' = [data EXCEPT ![cursor] = ap]
  /\ cursor' = cursor + 1
  /\ last_fbn' = ap

push(ap) ==
  /\ data' = [data EXCEPT ![cursor] = ap]
  /\ cursor' = (cursor + 1) % Size
  /\ last_fbn' = ap

hasPacket_OffByOne(f) ==
  /\ f <= last_fbn
  /\ Size * PSize >= last_fbn - f
  /\ f % PSize = 0

hasPacket(f) ==
  /\ f <= last_fbn
  /\ Size * PSize > last_fbn - f
  /\ f % PSize = 0

packet_index_FromCursor(f) == (Size + cursor - (last_fbn - f) \div PSize) % Size

packet_index(f) == (Size + cursor - 1 - (last_fbn - f) \div PSize) % Size

getPacket(f) == IF hasPacket(f) THEN data[packet_index(f)] ELSE NoPacket

-------------------------------------------------------------------------------

Init ==
  /\ PacketFifo
  /\ fbn = 0
  /\ answer = [asked |-> 0, got |-> NoPacket]

\* PacketReader::readPacket has a full buffer: the packet is numbered and
\* the streamer pushes it.
readPacket ==
  /\ fbn < MaxBytes
  /\ push(fbn)
  /\ fbn' = fbn + PSize
  /\ UNCHANGED answer

\* Another thread asks for a packet.
Get(f) ==
  /\ answer' = [asked |-> f, got |-> getPacket(f)]
  /\ UNCHANGED <<fifoVars, fbn>>

Next == readPacket \/ \E f \in Asked : Get(f)

Spec == Init /\ [][Next]_vars

-------------------------------------------------------------------------------

\* TYPES.  The cursor stays inside the vector and a slot holds the blank
\* packet or one the reader has numbered.
TypeOK ==
  /\ data \in [0 .. Size - 1 -> Nat \cup {Blank}]
  /\ cursor \in 0 .. Size - 1
  /\ last_fbn \in Nat
  /\ fbn \in Nat
  /\ answer \in [asked : Nat, got : Nat \cup {Blank, NoPacket}]

\* The packets produced and not yet overwritten.
Retained(f) ==
  /\ f < fbn
  /\ f % PSize = 0
  /\ fbn - f <= Size * PSize

\* SAFETY.  The index arithmetic of getPacket finds, whatever the position of
\* the cursor, exactly the packet asked for as long as it is one of the Size
\* most recent, and nothing once it has been overwritten.  (Before the first
\* push byte 0 is taken for a packet of the store.)
WindowIsServed ==
  \A f \in Asked :
    fbn > 0 => getPacket(f) = IF Retained(f) THEN f ELSE NoPacket

Window == INSTANCE RetransmitWindow WITH produced <- fbn

\* REFINEMENT.  The ring buffer implements the abstract store of the Size
\* most recent packets.
ImplementsWindow == Window!Spec

===============================================================================
