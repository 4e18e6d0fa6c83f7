------------------------------ MODULE AudioBuffer ------------------------------
(***************************************************************************)
(* AudioBuffer (audio-transmission.h/.cc), the receiver's playback buffer: *)
(* a list of consecutive packets in which a packet that has not arrived is *)
(* an empty optional, a map of the numbers of those, and a list, shared    *)
(* with the thread that requests retransmissions, of the numbers still to  *)
(* be asked for.                                                           *)
(*                                                                         *)
(* push holds the buffer's lock throughout, and the lock of the shared     *)
(* list from its first insertion to its end.  Its loop is modelled one     *)
(* iteration per step: pushing is the packet being pushed, and while there *)
(* is one the locks are held and no other operation is enabled.            *)
(*                                                                         *)
(* Two paths of push have undefined behaviour (an assignment through       *)
(* list::end(), list::back() of an empty list).  Past them C++ promises    *)
(* nothing and neither does the model: undefined becomes TRUE and no step  *)
(* follows.                                                                *)
(***************************************************************************)
EXTENDS Integers, Sequences

CONSTANTS Packets,  \* AudioPackets that arrive: records with .fbn and .size
          BSize,    \* Configuration::bsize
          Missing,  \* the empty optional in the list, and what pop returns for it
          NoPacket  \* no push is going on

ASSUME PacketsAssumption ==
  \A p \in Packets : p.fbn \in Nat /\ p.size \in Nat
\* The packets of a sender are numbered in multiples of their size
\* (PacketReader::readPacket).
ASSUME AlignedAssumption ==
  \A p \in Packets : p.size > 0 => p.fbn % p.size = 0
ASSUME BSizeAssumption == BSize \in Nat
ASSUME MarkerAssumption == {Missing, NoPacket} \cap Packets = {}

VARIABLES packets,          \* the list
          missing_map,      \* the keys of AudioBuffer::missing_map
          missing_packets,  \* SessionInfo::missing_packets, shared
          lowest_fbn, ready, size, psize,
          pushing, fill,    \* push: its argument and its loop variable
          undefined,        \* undefined behaviour has been executed
          played,           \* number of the last packet popped, -1: none
          asked             \* numbers requested for this buffer so far

bufferVars == <<packets, missing_map, missing_packets, lowest_fbn, ready,
                size, psize, pushing, fill, undefined, played, asked>>

-------------------------------------------------------------------------------

\* The constructor, given the first packet of a session.  missing_packets is a
\* reference to the shared list, which is left as it is.
AudioBuffer_OneBefore(initial) ==
  /\ size' = BSize \div initial.size
  /\ psize' = initial.size
  /\ packets' = <<initial>>
  /\ missing_map' = {}
  /\ lowest_fbn' = initial.fbn - initial.size
  /\ ready' = FALSE
  /\ played' = -1
  /\ asked' = {}

AudioBuffer(initial) ==
  /\ size' = BSize \div initial.size
  /\ psize' = initial.size
  /\ packets' = <<initial>>
  /\ missing_map' = {}
  /\ lowest_fbn' = initial.fbn
  /\ ready' = FALSE
  /\ played' = -1
  /\ asked' = {}

\* dropPacket, the front of the list and every trace of it.
dropPacket_KeepsNumber ==
  /\ missing_map' = missing_map \ {lowest_fbn}
  /\ missing_packets' = missing_packets \ {lowest_fbn}
  /\ packets' = Tail(packets)
  /\ UNCHANGED lowest_fbn

dropPacket_KeepsRequest ==
  /\ missing_map' = missing_map \ {lowest_fbn}
  /\ packets' = Tail(packets)
  /\ lowest_fbn' = lowest_fbn + psize
  /\ UNCHANGED missing_packets

dropPacket_KeepsFront ==
  /\ missing_map' = missing_map \ {lowest_fbn}
  /\ missing_packets' = missing_packets \ {lowest_fbn}
  /\ lowest_fbn' = lowest_fbn + psize
  /\ UNCHANGED packets

dropPacket ==
  /\ missing_map' = missing_map \ {lowest_fbn}
  /\ missing_packets' = missing_packets \ {lowest_fbn}
  /\ packets' = Tail(packets)
  /\ lowest_fbn' = lowest_fbn + psize

\* The numbers insertPacket drops to make room: none, or the lowest.
dropped == IF Len(packets) = size THEN {lowest_fbn} ELSE {}

\* insertPacket: the new back of the list, after a dropPacket if it is full.
insertPacket_NoDrop(slot) ==
  /\ packets' = Append(packets, slot)
  /\ UNCHANGED lowest_fbn

insertPacket(slot) ==
  \/ /\ Len(packets) = size
     /\ packets' = Append(Tail(packets), slot)
     /\ lowest_fbn' = lowest_fbn + psize
  \/ /\ Len(packets) # size
     /\ packets' = Append(packets, slot)
     /\ UNCHANGED lowest_fbn

back == packets[Len(packets)]

-------------------------------------------------------------------------------
(* push, from its call to its return.                                      *)

\* A packet the map knows as missing: putMissing takes its number off the
\* shared list and then assigns through the stored iterator, which is
\* packets.end().
putMissing(ap) ==
  /\ ap.fbn \in missing_map
  /\ undefined' = TRUE
  /\ missing_packets' = missing_packets \ {ap.fbn}
  /\ UNCHANGED <<packets, missing_map, lowest_fbn, ready, size, psize,
                 pushing, fill, played, asked>>

\* packets.back() of an empty list.
pushOnEmpty(ap) ==
  /\ ap.fbn \notin missing_map
  /\ packets = <<>>
  /\ undefined' = TRUE
  /\ UNCHANGED <<packets, missing_map, missing_packets, lowest_fbn, ready,
                 size, psize, pushing, fill, played, asked>>

pushOld(ap) ==
  /\ ap.fbn \notin missing_map
  /\ packets # <<>>
  /\ ap.fbn <= back.fbn
  /\ UNCHANGED bufferVars

firstMissing_FromBack == back.fbn

\* push's loop begins here.
firstMissing == back.fbn + psize

pushNew(ap) ==
  /\ ap.fbn \notin missing_map
  /\ packets # <<>>
  /\ ap.fbn > back.fbn
  /\ pushing' = ap
  /\ fill' = firstMissing
  /\ UNCHANGED <<packets, missing_map, missing_packets, lowest_fbn, ready,
                 size, psize, undefined, played, asked>>

push(ap) ==
  /\ pushing = NoPacket
  /\ putMissing(ap) \/ pushOnEmpty(ap) \/ pushOld(ap) \/ pushNew(ap)

\* One iteration of the loop over the numbers between the back and ap.
fillMissing_FirstSkipped ==
  /\ pushing # NoPacket
  /\ fill + psize < pushing.fbn
  /\ insertPacket(Missing)
  /\ missing_packets' = (missing_packets \ dropped) \cup {fill + psize}
  /\ missing_map' = (missing_map \ dropped) \cup {fill + psize}
  /\ fill' = fill + psize
  /\ UNCHANGED <<ready, size, psize, pushing, undefined, played, asked>>

fillMissing ==
  /\ pushing # NoPacket
  /\ fill < pushing.fbn
  /\ insertPacket(Missing)
  /\ missing_packets' = (missing_packets \ dropped) \cup {fill}
  /\ missing_map' = (missing_map \ dropped) \cup {fill}
  /\ fill' = fill + psize
  /\ UNCHANGED <<ready, size, psize, pushing, undefined, played, asked>>

insertPushed_OnlyIfRoom ==
  /\ pushing # NoPacket
  /\ fill >= pushing.fbn
  /\ IF Len(packets) = size
       THEN UNCHANGED <<packets, lowest_fbn, missing_packets, missing_map>>
       ELSE insertPacket(pushing) /\ UNCHANGED <<missing_packets, missing_map>>
  /\ pushing' = NoPacket
  /\ UNCHANGED <<ready, size, psize, fill, undefined, played, asked>>

insertPushed ==
  /\ pushing # NoPacket
  /\ fill >= pushing.fbn
  /\ insertPacket(pushing)
  /\ missing_packets' = missing_packets \ dropped
  /\ missing_map' = missing_map \ dropped
  /\ ready' = (ready \/ Len(packets') >= (3 * size) \div 4)
  /\ pushing' = NoPacket
  /\ UNCHANGED <<size, psize, fill, undefined, played, asked>>

-------------------------------------------------------------------------------
(* pop and the requests.                                                   *)

\* pop returns the packet at the front.
popPacket ==
  /\ pushing = NoPacket
  /\ packets # <<>>
  /\ Head(packets) # Missing
  /\ dropPacket
  /\ played' = Head(packets).fbn
  /\ UNCHANGED <<ready, size, psize, pushing, fill, undefined, asked>>

\* pop returns an empty optional: the packet at the front never came, or
\* there is nothing in the list.
popNothing ==
  /\ pushing = NoPacket
  /\ \/ /\ packets # <<>>
        /\ Head(packets) = Missing
        /\ dropPacket
     \/ /\ packets = <<>>
        /\ UNCHANGED <<packets, missing_map, missing_packets, lowest_fbn>>
  /\ UNCHANGED <<ready, size, psize, pushing, fill, undefined, played, asked>>

\* missingPacketsManager copies the shared list and clears it, under its lock.
takeMissing ==
  /\ pushing = NoPacket
  /\ asked' = asked \cup missing_packets
  /\ missing_packets' = {}
  /\ UNCHANGED <<packets, missing_map, lowest_fbn, ready,
                 size, psize, pushing, fill, undefined, played>>

-------------------------------------------------------------------------------

\* Before the first session there is no buffer (a null pointer), and psize is 0.
Init ==
  /\ packets = <<>>
  /\ missing_map = {}
  /\ missing_packets = {}
  /\ lowest_fbn = 0
  /\ ready = FALSE
  /\ size = 0
  /\ psize = 0
  /\ pushing = NoPacket
  /\ fill = 0
  /\ undefined = FALSE
  /\ played = -1
  /\ asked = {}

\* resetSession, first step: the shared list is cleared.
clearMissing ==
  /\ pushing = NoPacket
  /\ missing_packets' = {}
  /\ UNCHANGED <<packets, missing_map, lowest_fbn, ready, size, psize,
                 pushing, fill, undefined, played, asked>>

\* resetSession, second step: a new buffer takes the place of the old one.
newBuffer(initial) ==
  /\ pushing = NoPacket
  /\ UNCHANGED missing_packets
  /\ \/ /\ initial.size > 0
        /\ AudioBuffer(initial)
        /\ UNCHANGED <<pushing, fill, undefined>>
     \/ /\ initial.size = 0    \* a division by zero
        /\ undefined' = TRUE
        /\ UNCHANGED <<packets, missing_map, lowest_fbn, ready, size, psize,
                       pushing, fill, played, asked>>

\* putPacket: only packets of the session's size are pushed.
putPacket(ap) ==
  /\ psize > 0
  /\ ap.size = psize
  /\ push(ap)

pop == psize > 0 /\ (popPacket \/ popNothing)

\* A buffer is made only after the shared list was cleared, by a thread that
\* pushes nothing in between.
Next ==
  /\ ~undefined
  /\ \/ clearMissing
     \/ missing_packets = {} /\ \E ap \in Packets : newBuffer(ap)
     \/ \E ap \in Packets : putPacket(ap)
     \/ fillMissing
     \/ insertPushed
     \/ pop
     \/ takeMissing

Spec == Init /\ [][Next]_bufferVars

-------------------------------------------------------------------------------

\* TYPES.
TypeOK ==
  /\ packets \in Seq(Packets \cup {Missing})
  /\ missing_map \subseteq Nat
  /\ missing_packets \subseteq Nat
  /\ lowest_fbn \in Nat
  /\ ready \in BOOLEAN
  /\ size \in Nat
  /\ psize \in Nat
  /\ pushing \in Packets \cup {NoPacket}
  /\ fill \in Nat
  /\ undefined \in BOOLEAN
  /\ played \in Nat \cup {-1}
  /\ asked \subseteq Nat

\* The number the i-th slot of the list stands for.
Number(i) == lowest_fbn + (i - 1) * psize

\* SAFETY.  However pushes that skip numbers, drops and pops are mixed, the
\* list has a slot for every number from lowest_fbn on, in order and without
\* gaps, and a packet is in the slot of its own number.
SlotsInOrder ==
  \A i \in 1 .. Len(packets) :
    packets[i] # Missing => packets[i].fbn = Number(i)

\* SAFETY.  missing_map holds the numbers of the empty slots, those and no
\* others, even after slots left the list at its front.
MissingMapExact ==
  missing_map = {Number(i) : i \in {j \in 1 .. Len(packets) : packets[j] = Missing}}

RequestsStillMissing == missing_packets \subseteq missing_map

RequestedOnce == missing_packets \cap asked = {}

\* SAFETY.  A retransmission is requested only for a slot the buffer still has
\* and that is still empty, never for a packet that arrived or was dropped; and
\* only once: a request lost on the way is not made again (the receiver relies
\* on none being lost).
RequestsAreSound == RequestsStillMissing /\ RequestedOnce

\* SAFETY.  A buffer with room for a packet never holds more than its size, not
\* even while a packet far ahead fills it with empty slots.
WithinSize == size > 0 => Len(packets) <= size

\* SAFETY.  push reads the number of the last packet through an optional it
\* does not check: outside a push the last slot is never an empty one.
BackIsPacket ==
  pushing = NoPacket /\ packets # <<>> => back # Missing

\* ACTION.  Within a session packets are played in the order of their numbers
\* and none is played twice, whatever order they arrive in: what pop returns is
\* above what the pop before returned, and below every number the list is left
\* with.  (A new buffer starts at -1.)
PlayedInOrder ==
  [][popPacket => played < played' /\ played' < lowest_fbn']_bufferVars

===============================================================================
