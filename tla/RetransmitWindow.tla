--------------------------- MODULE RetransmitWindow ---------------------------
(***************************************************************************)
(* What the sender's packet store promises, with no ring buffer in sight:  *)
(* of the packets produced so far the Size most recent ones can be had     *)
(* again, each under the number of its first byte; nothing else can.       *)
(*                                                                         *)
(* A packet is identified by the number of its first byte.  produced is    *)
(* the number of bytes produced so far, so the packets produced are the    *)
(* multiples of PSize below it.                                            *)
(***************************************************************************)
EXTENDS Integers

CONSTANTS Size,      \* packets the store holds
          PSize,     \* bytes of a packet
          MaxBytes,  \* bound: the producer stops here
          Asked,     \* byte numbers a receiver may ask for
          Blank,     \* the default-constructed packet
          NoPacket   \* "there is no such packet"

VARIABLES produced,  \* bytes produced so far
          answer     \* the last question and the store's answer to it

vars == <<produced, answer>>

Init ==
  /\ produced = 0
  /\ answer = [asked |-> 0, got |-> NoPacket]

Produce ==
  /\ produced < MaxBytes
  /\ produced' = produced + PSize
  /\ UNCHANGED answer

\* The packets that can be had again.
Retained(f) ==
  /\ f < produced
  /\ f % PSize = 0
  /\ produced - f <= Size * PSize

\* Before the first packet byte 0 is answered with a blank packet.
Get(f) ==
  /\ answer' = [asked |-> f,
                got   |-> IF Retained(f) THEN f
                          ELSE IF produced = 0 /\ f = 0 THEN Blank
                          ELSE NoPacket]
  /\ UNCHANGED produced

Next == Produce \/ \E f \in Asked : Get(f)

Spec == Init /\ [][Next]_vars
===============================================================================
