-------------------------------- MODULE Sender --------------------------------
(***************************************************************************)
(* The sender (sender.h/.cc, sender-main.cc): three threads around a       *)
(* PacketFifo, a list of retransmission orders and a flag.                 *)
(*                                                                         *)
(*   streamer    numbers a packet, pushes it, broadcasts it; at the end of *)
(*               its input clears the flag                                 *)
(*   controller  receives datagrams on the control port; orders packets    *)
(*   resender    takes all the orders at once and answers them one by one  *)
(*                                                                         *)
(* A step is what a thread does between two accesses to shared state.  A   *)
(* sent datagram may be lost (udp::Socket::send ignores the result).       *)
(*                                                                         *)
(* An order is given an id, so that two orders for the same packet from    *)
(* the same receiver are told apart; the lists of orders are then sets of  *)
(* orders, taken in the order of their ids.                                *)
(***************************************************************************)
EXTENDS Integers, Sequences, FiniteSets

CONSTANTS Size, PSize, MaxBytes, Asked, Blank, NoPacket,  \* as in PacketFifo
          Receivers,  \* addresses that send control datagrams
          Lists,      \* the lists of numbers a LOUDER_PLEASE carries
          MaxOrders   \* bound: no LOUDER_PLEASE is received after this many orders

ASSUME SizeAssumption == Size \in Nat \ {0}
ASSUME PSizeAssumption == PSize \in Nat \ {0}
ASSUME MaxBytesAssumption == MaxBytes \in Nat
ASSUME AskedAssumption == Asked \subseteq Nat
ASSUME MarkerAssumption == Blank # NoPacket /\ {Blank, NoPacket} \cap Nat = {}
ASSUME MaxOrdersAssumption == MaxOrders \in Nat
ASSUME ListsAssumption == Lists \subseteq Seq(Asked)

VARIABLES data, cursor, last_fbn, fbn,  \* the fifo and the reader's number
          answer,                       \* the fifo's last answer
          running,                      \* the flag
          rexmit_orders,                \* the shared list
          orders,                       \* resend_packets: its copy of it
          streamer, controller, resender,  \* where each thread is
          broadcast,                    \* numbers broadcast so far
          nextId,                       \* id of the next order
          resolved,                     \* the orders resend_packets is done with
          aborted                       \* an exception left a thread

fifoVars == <<data, cursor, last_fbn, fbn, answer>>
orderVars == <<rexmit_orders, orders, nextId, resolved>>
threadVars == <<streamer, controller, resender>>
vars == <<fifoVars, orderVars, threadVars, running, broadcast, aborted>>

Fifo == INSTANCE PacketFifo

Init ==
  /\ Fifo!Init
  /\ running = TRUE
  /\ rexmit_orders = {}
  /\ orders = {}
  /\ streamer = "read"
  /\ controller = "check"
  /\ resender = "check"
  /\ broadcast = {}
  /\ nextId = 0
  /\ resolved = {}
  /\ aborted = FALSE

-------------------------------------------------------------------------------
(* streamer                                                                *)

streamerPush_Lost ==
  /\ streamer = "read"
  /\ fbn < MaxBytes
  /\ fbn' = fbn + PSize
  /\ streamer' = "send"
  /\ UNCHANGED <<data, cursor, last_fbn, answer, orderVars, controller,
                 resender, running, broadcast, aborted>>

\* readPacket returned a packet; it is pushed.
streamerPush ==
  /\ streamer = "read"
  /\ Fifo!readPacket
  /\ streamer' = "send"
  /\ UNCHANGED <<orderVars, controller, resender, running, broadcast, aborted>>

streamerSend ==
  /\ streamer = "send"
  /\ broadcast' = broadcast \cup {fbn - PSize}
  /\ streamer' = "read"
  /\ UNCHANGED <<fifoVars, orderVars, controller, resender, running, aborted>>

streamerEof_NoFlag ==
  /\ streamer = "read"
  /\ streamer' = "ended"
  /\ UNCHANGED <<fifoVars, orderVars, controller, resender, running, broadcast, aborted>>

\* The input ended; what was read of a packet is dropped.
streamerEof ==
  /\ streamer = "read"
  /\ running' = FALSE
  /\ streamer' = "ended"
  /\ UNCHANGED <<fifoVars, orderVars, controller, resender, broadcast, aborted>>

\* readPacket throws and nothing catches it.
streamerError ==
  /\ streamer = "read"
  /\ aborted' = TRUE
  /\ UNCHANGED <<fifoVars, orderVars, threadVars, running, broadcast>>

-------------------------------------------------------------------------------
(* controller                                                              *)

controllerCheck ==
  /\ controller = "check"
  /\ controller' = IF running THEN "receive" ELSE "ended"
  /\ UNCHANGED <<fifoVars, orderVars, streamer, resender, running, broadcast, aborted>>

\* Nothing came for 200 ms, or a datagram that orders nothing: an empty one, one
\* with bytes outside the protocol's, a lookup (answered to its author), SHOW.
controllerOther ==
  /\ controller = "receive"
  /\ controller' = "check"
  /\ UNCHANGED <<fifoVars, orderVars, streamer, resender, running, broadcast, aborted>>

\* The orders made of a list of numbers: one for each that is a multiple of the
\* packet size.
newOrders_AllNumbers(caller, list) ==
  {[id |-> nextId + i, fbn |-> list[i], to |-> caller] : i \in DOMAIN list}

newOrders(caller, list) ==
  {[id |-> nextId + i, fbn |-> list[i], to |-> caller] :
     i \in {j \in DOMAIN list : list[j] % PSize = 0}}

handle_rexmit(caller, list) ==
  /\ controller = "receive"
  /\ nextId < MaxOrders
  /\ rexmit_orders' = rexmit_orders \cup newOrders(caller, list)
  /\ nextId' = nextId + Len(list)
  /\ controller' = "check"
  /\ UNCHANGED <<fifoVars, orders, resolved, streamer, resender, running, broadcast, aborted>>

\* recvfrom fails, receive throws and nothing catches it.
controllerError ==
  /\ controller = "receive"
  /\ aborted' = TRUE
  /\ UNCHANGED <<fifoVars, orderVars, threadVars, running, broadcast>>

-------------------------------------------------------------------------------
(* resender                                                                *)

resenderCheck ==
  /\ resender = "check"
  /\ resender' = IF running THEN "take" ELSE "ended"
  /\ UNCHANGED <<fifoVars, orderVars, streamer, controller, running, broadcast, aborted>>

takeOrders_ClearFirst ==
  /\ resender = "take"
  /\ rexmit_orders' = {}
  /\ orders' = rexmit_orders'
  /\ resender' = "resend"
  /\ UNCHANGED <<fifoVars, nextId, resolved, streamer, controller, running,
                 broadcast, aborted>>

takeOrders_NoClear ==
  /\ resender = "take"
  /\ orders' = rexmit_orders
  /\ resender' = "resend"
  /\ UNCHANGED <<fifoVars, rexmit_orders, nextId, resolved, streamer, controller,
                 running, broadcast, aborted>>

\* The shared list is copied and cleared under its lock.
takeOrders ==
  /\ resender = "take"
  /\ orders' = rexmit_orders
  /\ rexmit_orders' = {}
  /\ resender' = "resend"
  /\ UNCHANGED <<fifoVars, nextId, resolved, streamer, controller, running,
                 broadcast, aborted>>

First(S) == CHOOSE o \in S : \A p \in S : o.id <= p.id

\* An order with what it was answered, at the time it was.
Resolution(o) == [order |-> o, got |-> Fifo!getPacket(o.fbn), at |-> fbn]

resendPacket_Retries ==
  /\ resender = "resend"
  /\ orders # {}
  /\ LET o == First(orders)
     IN  /\ Fifo!Get(o.fbn)
         /\ IF Fifo!getPacket(o.fbn) = NoPacket
              THEN UNCHANGED <<orders, resolved>>
              ELSE orders' = orders \ {o} /\ resolved' = resolved \cup {Resolution(o)}
  /\ UNCHANGED <<rexmit_orders, nextId, threadVars, running, broadcast, aborted>>

\* The next order is looked up in the fifo and, if it is there, sent.
resendPacket ==
  /\ resender = "resend"
  /\ orders # {}
  /\ LET o == First(orders)
     IN  /\ Fifo!Get(o.fbn)
         /\ orders' = orders \ {o}
         /\ resolved' = resolved \cup {Resolution(o)}
  /\ UNCHANGED <<rexmit_orders, nextId, threadVars, running, broadcast, aborted>>

\* All orders are dealt with; the thread sleeps.
resenderSleep ==
  /\ resender = "resend"
  /\ orders = {}
  /\ resender' = "check"
  /\ UNCHANGED <<fifoVars, orderVars, streamer, controller, running, broadcast, aborted>>

-------------------------------------------------------------------------------

\* main has joined the two threads and returned, or the process was aborted.
Terminated ==
  \/ aborted
  \/ streamer = "ended" /\ controller = "ended" /\ resender = "ended"

Streamer == ~aborted /\ (streamerPush \/ streamerSend \/ streamerEof \/ streamerError)

Controller ==
  /\ ~aborted
  /\ \/ controllerCheck
     \/ controllerOther
     \/ \E r \in Receivers, list \in Lists : handle_rexmit(r, list)
     \/ controllerError

Resender ==
  /\ ~aborted
  /\ resenderCheck \/ takeOrders \/ resendPacket \/ resenderSleep

Done == Terminated /\ UNCHANGED vars

Next == Streamer \/ Controller \/ Resender \/ Done

\* Every thread that is not blocked runs, and receive returns after 200 ms
\* whether or not something came.  Whether the input ever ends is up to the
\* input.
Spec ==
  /\ Init
  /\ [][Next]_vars
  /\ WF_vars(Controller)
  /\ WF_vars(Resender)

-------------------------------------------------------------------------------

Orders == [id : Nat, fbn : Asked, to : Receivers]

\* TYPES.
TypeOK ==
  /\ Fifo!TypeOK
  /\ running \in BOOLEAN
  /\ rexmit_orders \subseteq Orders
  /\ orders \subseteq Orders
  /\ streamer \in {"read", "send", "ended"}
  /\ controller \in {"check", "receive", "ended"}
  /\ resender \in {"check", "take", "resend", "ended"}
  /\ broadcast \subseteq Nat
  /\ nextId \in Nat
  /\ resolved \subseteq [order : Orders, got : Nat \cup {Blank, NoPacket}, at : Nat]
  /\ aborted \in BOOLEAN

\* SAFETY.  A packet is in the store before anybody can have heard of it: any
\* packet that was broadcast can be had until Size newer ones were produced.
BroadcastIsServed ==
  \A n \in broadcast \cap Asked : fbn - n <= Size * PSize => Fifo!getPacket(n) = n

\* SAFETY.  An order goes unanswered only for a packet that was, at that time,
\* overwritten or not produced yet; and it is answered with the packet it asks
\* for.  (Byte 0, ordered before the first push, gets the blank packet.)
OrdersAnsweredRight ==
  \A r \in resolved :
    LET f == r.order.fbn
    IN  IF f < r.at /\ r.at - f <= Size * PSize THEN r.got = f
        ELSE r.got = IF f = 0 /\ r.at = 0 THEN Blank ELSE NoPacket

\* SAFETY.  The hand-over between the two threads loses no order and none is
\* answered twice: an order is in one place, on its way from the shared list
\* through the resender's copy to being dealt with.
OrderInOnePlace ==
  /\ rexmit_orders \cap orders = {}
  /\ \A r \in resolved : r.order \notin rexmit_orders \cup orders
  /\ \A r, s \in resolved : r.order = s.order => r = s

\* ACTION.  An order, once accepted, is dropped by nothing but its resolution.
NoOrderLost ==
  [][\A o \in rexmit_orders \cup orders :
       \/ o \in rexmit_orders' \cup orders'
       \/ \E r \in resolved' : r.order = o]_vars

\* REFINEMENT.  Whatever the threads do, the fifo is used as the ring buffer's
\* specification says, so its properties hold of the sender.
UsesFifo == Fifo!Init /\ [][Fifo!Next]_fifoVars

\* LIVENESS.  After the end of the input both other threads notice and the
\* process ends, even while orders keep coming in.
Stops == streamer = "ended" ~> Terminated

\* LIVENESS.  An accepted order is dealt with unless the sender stops first.
OrdersResolved ==
  \A i \in 1 .. MaxOrders :
    (\E o \in rexmit_orders : o.id = i)
      ~> \/ \E r \in resolved : r.order.id = i
         \/ ~running
         \/ aborted
===============================================================================
