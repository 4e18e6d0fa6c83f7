------------------------------- MODULE Messages -------------------------------
(***************************************************************************)
(* What the programs write to each other and what they read of it: a       *)
(* packet (AudioPacket::toBytes and fromBytes), whose numbers go through   *)
(* the memory of two computers, and a request for packets (rexmitMessage   *)
(* and handle_rexmit), as text.  A datagram is cut by whoever receives it  *)
(* when it is longer than MAX_DATAGRAM_SIZE.                               *)
(*                                                                         *)
(* A number has the code's shape, two halves of two bytes each; bytes and  *)
(* digits may take as few values as an instance needs.                     *)
(***************************************************************************)
EXTENDS Integers, SequencesExt

CONSTANTS Byte,                \* values of a byte (256)
          Radix,               \* values of a digit (10)
          MAX_DATAGRAM_SIZE,
          RequestHeader        \* length of the header of a request

\* sizeof(session_id) + sizeof(first_byte_num)
PacketHeader == 4 + 4

ASSUME MessagesAssumption ==
  /\ Byte \in Nat \ {0, 1} /\ Radix \in Nat \ {0, 1}
  /\ RequestHeader \in Nat /\ MAX_DATAGRAM_SIZE \in Nat
  /\ MAX_DATAGRAM_SIZE > RequestHeader /\ MAX_DATAGRAM_SIZE > PacketHeader

-------------------------------------------------------------------------------
(* Packets                                                                 *)

Half == Byte * Byte

\* The C library's, of a half; a host is "big" or "little" endian.
htonl(host, half) ==
  IF host = "big" THEN half ELSE (half % Byte) * Byte + half \div Byte

htonl64_HalvesKept(host, number) ==
  IF host = "big" THEN number
  ELSE htonl(host, number \div Half) * Half + htonl(host, number % Half)

htonl64(host, number) ==
  IF host = "big" THEN number
  ELSE htonl(host, number % Half) * Half + htonl(host, number \div Half)

\* The bytes of a number in a host's memory, lowest address first.
InMemory(host, number) ==
  LET high == number \div Half
      low == number % Half
      b == <<high \div Byte, high % Byte, low \div Byte, low % Byte>>
  IN  IF host = "big" THEN b ELSE Reverse(b)

FromMemory(host, bytes) ==
  LET b == IF host = "big" THEN bytes ELSE Reverse(bytes)
  IN  ((b[1] * Byte + b[2]) * Byte + b[3]) * Byte + b[4]

\* The data are told apart by their number of bytes only.
toBytes(host, p) ==
  [session |-> InMemory(host, htonl64(host, p.session)),
   fbn |-> InMemory(host, htonl64(host, p.fbn)),
   size |-> p.size]

Least(m, n) == IF m < n THEN m ELSE n

\* What receive makes of a datagram.
receive(datagram) ==
  [datagram EXCEPT !.size = Least(@, MAX_DATAGRAM_SIZE - PacketHeader)]

fromBytes(host, datagram) ==
  [session |-> htonl64(host, FromMemory(host, datagram.session)),
   fbn |-> htonl64(host, FromMemory(host, datagram.fbn)),
   size |-> datagram.size]

-------------------------------------------------------------------------------
(* Requests                                                                *)

Comma == -1

DigitsOf(n) ==
  LET digits[m \in 0 .. n] ==
        IF m < Radix THEN <<m>> ELSE Append(digits[m \div Radix], m % Radix)
  IN  digits[n]

Ascending(numbers) ==
  CHOOSE s \in [1 .. Cardinality(numbers) -> numbers] :
    \A i, j \in DOMAIN s : i < j => s[i] < s[j]

rexmitMessage_NoSeparator(numbers) ==
  LET Message(list) == FlattenSeq([i \in DOMAIN list |-> DigitsOf(list[i])])
  IN  Message(Ascending(numbers))

\* The numbers of the list, which are in ascending order.
rexmitMessage(numbers) ==
  LET Message(list) == Tail(FlattenSeq([i \in DOMAIN list |-> <<Comma>> \o DigitsOf(list[i])]))
  IN  Message(Ascending(numbers))

receiveText(text) == SubSeq(text, 1, Least(Len(text), MAX_DATAGRAM_SIZE - RequestHeader))

\* getline, as often as it gives something that stoul takes.
Pieces(text) ==
  LET Ends(i) == i \notin DOMAIN text \/ text[i] = Comma
      Piece(i, j) == Ends(i - 1) /\ Ends(j + 1) /\ \A k \in i .. j : ~Ends(k)
  IN  {SubSeq(text, r[1], r[2]) :
         r \in {q \in (DOMAIN text) \X (DOMAIN text) : q[1] <= q[2] /\ Piece(q[1], q[2])}}

stoul(piece) ==
  LET value[n \in 0 .. Len(piece)] ==
        IF n = 0 THEN 0 ELSE value[n - 1] * Radix + piece[n]
  IN  value[Len(piece)]

\* The numbers a sender takes as orders.
handle_rexmit(text, psize) ==
  {n \in {stoul(piece) : piece \in Pieces(text)} : n % psize = 0}
===============================================================================
