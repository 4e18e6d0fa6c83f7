----------------------------- MODULE SenderProofs -----------------------------
(***************************************************************************)
(* Proofs about Sender, for any number of slots, orders and receivers.     *)
(*                                                                         *)
(* The fifo's part is not proved again: Ring has the theorems about the    *)
(* PacketFifo that the three threads share, and what is left to show is    *)
(* that they use it as a PacketFifo, that packets are broadcast after they *)
(* were pushed, and that an order has one place at a time because ids      *)
(* only grow.                                                              *)
(***************************************************************************)
EXTENDS Sender, TLAPS, NaturalsInduction, WellFoundedInduction

Ring == INSTANCE PacketFifoProofs

\* A packet is counted as broadcast only after it was pushed.
BroadcastInv ==
  /\ streamer = "send" => fbn > 0
  /\ \A n \in broadcast : n % PSize = 0 /\ n < fbn

\* All orders, wherever they are, have ids given out so far, and are for packets; the
\* resender's copy is used up before it takes another.
OrdersInv ==
  /\ \A o \in rexmit_orders \cup orders \cup {r.order : r \in resolved} :
       o.id <= nextId /\ o.fbn % PSize = 0
  /\ resender # "resend" => orders = {}

IInv ==
  /\ TypeOK
  /\ Ring!RingInv
  /\ BroadcastInv
  /\ OrdersInv
  /\ OrderInOnePlace
  /\ OrdersAnsweredRight

-------------------------------------------------------------------------------
(* The fifo.                                                               *)

\* LEMMA.  The steps of Fifo are those of Ring, which is another instance of it.
LEMMA FifoStepIsRings == [Fifo!Next]_fifoVars => [Ring!Next]_(Ring!vars)
<1>1. \A f \in Asked : Ring!getPacket(f) = Fifo!getPacket(f)
  BY DEF Ring!getPacket, Fifo!getPacket, Ring!hasPacket, Fifo!hasPacket,
         Ring!packet_index, Fifo!packet_index
<1>2. Fifo!readPacket => Ring!readPacket
  BY DEF Ring!readPacket, Fifo!readPacket, Ring!push, Fifo!push
<1>3. \A f \in Asked : Fifo!Get(f) => Ring!Get(f)
  BY <1>1 DEF Ring!Get, Fifo!Get, Ring!fifoVars, Fifo!fifoVars
<1>4. QED
  BY <1>2, <1>3 DEF Fifo!Next, Ring!Next, fifoVars, Ring!vars

\* LEMMA.  The ring's invariant holds at first and is kept by its operations, and by it
\* getPacket answers as it should; restated for the names that Sender uses.
LEMMA RingFacts ==
  /\ Fifo!Init => Ring!RingInv
  /\ Ring!RingInv /\ [Fifo!Next]_fifoVars => Ring!RingInv'
  /\ Ring!RingInv => Fifo!TypeOK /\ fbn % PSize = 0
  /\ Ring!RingInv => \A f \in Nat :
       Fifo!getPacket(f) =
         IF fbn > 0 THEN IF Fifo!Retained(f) THEN f ELSE NoPacket
         ELSE IF f = 0 THEN Blank ELSE NoPacket
<1> USE SizeAssumption, PSizeAssumption, MaxBytesAssumption, AskedAssumption,
        MarkerAssumption
<1>1. Fifo!Init => Ring!RingInv
  BY Ring!InitRing DEF Ring!Init, Fifo!Init, Ring!PacketFifo, Fifo!PacketFifo
<1>2. Ring!RingInv /\ [Fifo!Next]_fifoVars => Ring!RingInv'
  BY FifoStepIsRings, Ring!StepRing
<1>3. ASSUME Ring!RingInv
      PROVE  Fifo!TypeOK /\ fbn % PSize = 0
  BY <1>3 DEF Ring!RingInv, Ring!TypeOK, Fifo!TypeOK
<1>4. ASSUME Ring!RingInv, NEW f \in Nat
      PROVE  Fifo!getPacket(f) =
               IF fbn > 0 THEN IF Fifo!Retained(f) THEN f ELSE NoPacket
               ELSE IF f = 0 THEN Blank ELSE NoPacket
  <2>1. Ring!getPacket(f) = Fifo!getPacket(f)
    BY DEF Ring!getPacket, Fifo!getPacket, Ring!hasPacket, Fifo!hasPacket,
           Ring!packet_index, Fifo!packet_index
  <2>2. CASE fbn > 0
    <3>1. Ring!getPacket(f) = IF Ring!Retained(f) THEN f ELSE NoPacket
      BY <1>4, <2>2, Ring!RingServesWindow
    <3>2. QED  BY <2>1, <2>2, <3>1 DEF Ring!Retained, Fifo!Retained
  <2>3. CASE ~(fbn > 0)
    <3>1. fbn = 0
      BY <1>3, <1>4, <2>3 DEF Fifo!TypeOK
    <3>2. Ring!getPacket(f) = IF f = 0 THEN Blank ELSE NoPacket
      BY <1>4, <3>1, Ring!BlankBeforeFirst
    <3>3. QED  BY <2>1, <2>3, <3>2
  <2>4. QED  BY <2>2, <2>3
<1>5. QED  BY <1>1, <1>2, <1>3, <1>4

\* LEMMA.  Of any orders there is a first one.
LEMMA FirstIsOne ==
  ASSUME NEW S, S # {}, \A o \in S : o.id \in Nat
  PROVE  First(S) \in S
<1> DEFINE Ids == {o.id : o \in S}
<1>1. PICK i \in Ids : \A j \in Ids : ~(<<j, i>> \in OpToRel(<, Nat))
  <2>1. Ids \subseteq Nat /\ Ids # {}
    OBVIOUS
  <2> HIDE DEF Ids
  <2>2. QED  BY <2>1, NatLessThanWellFounded, WFMin
<1>2. \A j, k \in Nat : j < k => <<j, k>> \in OpToRel(<, Nat)
  BY DEF OpToRel
<1>3. PICK o \in S : i = o.id
  OBVIOUS
<1>4. ASSUME NEW p \in S
      PROVE  o.id <= p.id
  <2>1. p.id \in Nat /\ o.id \in Nat /\ p.id \in Ids
    OBVIOUS
  <2>2. ~(p.id < o.id)
    BY ONLY <1>1, <1>2, <1>3, <2>1
  <2>3. QED  BY <2>1, <2>2
<1>5. QED  BY <1>4 DEF First

\* LEMMA.  A step of the sender is one of the fifo's, or leaves the fifo alone.
LEMMA StepsOfFifo ==
  ASSUME TypeOK, [Next]_vars
  PROVE  [Fifo!Next]_fifoVars
<1> USE DEF fifoVars
<1>1. CASE streamerPush
  BY <1>1 DEF streamerPush, Fifo!Next
<1>2. CASE resendPacket
  <2>1. First(orders) \in orders
    BY <1>2, FirstIsOne DEF resendPacket, TypeOK, Orders
  <2>2. First(orders).fbn \in Asked
    BY <2>1 DEF TypeOK, Orders
  <2>3. QED  BY <1>2, <2>2 DEF resendPacket, Fifo!Next
<1>3. CASE ~streamerPush /\ ~resendPacket
  BY <1>3 DEF Next, Streamer, Controller, Resender, Done, vars, streamerSend,
       streamerEof, streamerError, controllerCheck, controllerOther, handle_rexmit,
       controllerError, resenderCheck, takeOrders, resenderSleep
<1>4. QED  BY <1>1, <1>2, <1>3

-------------------------------------------------------------------------------
(* The invariant.                                                          *)

LEMMA InitInv == Init => IInv
<1> SUFFICES ASSUME Init PROVE IInv
  OBVIOUS
<1>1. Fifo!Init
  BY DEF Init
<1>2. Ring!RingInv /\ Fifo!TypeOK
  BY <1>1, RingFacts
<1>3. QED
  BY <1>2 DEF IInv, Init, TypeOK, BroadcastInv, OrdersInv, OrderInOnePlace,
       OrdersAnsweredRight

\* LEMMA.  Getting a packet, or nothing at all, changes nothing of what is said of
\* the fifo; a push only adds a packet.
LEMMA FifoSteps ==
  /\ streamerPush => fbn' = fbn + PSize
  /\ [Next]_vars /\ ~streamerPush => UNCHANGED fbn
<1>1. streamerPush => fbn' = fbn + PSize
  BY DEF streamerPush, Fifo!readPacket
<1>2. [Next]_vars /\ ~streamerPush => UNCHANGED fbn
  BY DEF Next, Streamer, Controller, Resender, Done, vars, fifoVars, streamerSend,
     streamerEof, streamerError, controllerCheck, controllerOther, handle_rexmit,
     controllerError, resenderCheck, takeOrders, resendPacket, resenderSleep, Fifo!Get
<1>3. QED  BY <1>1, <1>2

\* LEMMA.  Packets are pushed before they are broadcast.
LEMMA StepBroadcast ==
  ASSUME IInv, [Next]_vars
  PROVE  BroadcastInv'
<1> USE DEF IInv, BroadcastInv
<1>1. fbn \in Nat /\ fbn % PSize = 0 /\ PSize \in Nat \ {0}
  BY RingFacts, PSizeAssumption DEF Fifo!TypeOK
<1>2. CASE streamerPush
  BY <1>1, <1>2, FifoSteps DEF streamerPush, TypeOK
<1>3. CASE streamerSend
  <2>1. fbn > 0 /\ fbn' = fbn
    BY <1>3 DEF streamerSend, fifoVars
  <2>2. (fbn - PSize) % PSize = 0
    <3>1. PICK k \in Nat : fbn = k * PSize
      BY <1>1, Ring!Multiple, SizeAssumption, PSizeAssumption, MaxBytesAssumption,
         AskedAssumption, MarkerAssumption
    <3>2. k - 1 \in Nat /\ fbn - PSize = (k - 1) * PSize
      BY <1>1, <2>1, <3>1
    <3>3. QED
      BY <3>2, Ring!CountPackets, SizeAssumption, PSizeAssumption, MaxBytesAssumption,
         AskedAssumption, MarkerAssumption
  <2>3. QED  BY <1>1, <1>3, <2>1, <2>2 DEF streamerSend
<1>4. CASE streamerEof \/ streamerError
  BY <1>4 DEF streamerEof, streamerError, fifoVars, threadVars
<1>5. CASE Controller
  BY <1>5 DEF Controller, controllerCheck, controllerOther, handle_rexmit,
     controllerError, fifoVars, threadVars
<1>6. CASE Resender
  BY <1>6 DEF Resender, resenderCheck, takeOrders, resendPacket, resenderSleep,
     fifoVars, threadVars, Fifo!Get
<1>7. CASE UNCHANGED vars
  BY <1>7 DEF vars, fifoVars, threadVars
<1>8. QED
  BY <1>2, <1>3, <1>4, <1>5, <1>6, <1>7 DEF Next, Streamer, Done

\* LEMMA.  The new orders have ids of their own and are for packets.
LEMMA NewOrders ==
  ASSUME nextId \in Nat, NEW r \in Receivers, NEW list \in Lists
  PROVE  /\ newOrders(r, list) \subseteq Orders
         /\ nextId + Len(list) \in Nat
         /\ \A o \in newOrders(r, list) :
              o.id > nextId /\ o.id <= nextId + Len(list) /\ o.fbn % PSize = 0
<1>1. list \in Seq(Asked)
  BY ListsAssumption
<1>2. \A i \in DOMAIN list : i \in Nat /\ i > 0 /\ i <= Len(list) /\ list[i] \in Asked
  BY <1>1
<1>3. Len(list) \in Nat
  BY <1>1
<1>4. QED  BY <1>2, <1>3 DEF newOrders, Orders

\* LEMMA.  The orders keep their types, and the threads their places.
LEMMA StepTypes ==
  ASSUME IInv, [Next]_vars
  PROVE  TypeOK'
<1> USE DEF TypeOK
<1>1. TypeOK /\ Fifo!TypeOK'
  <2>1. Ring!RingInv'
    BY StepsOfFifo, RingFacts DEF IInv
  <2>2. QED  BY <2>1 DEF IInv, Ring!RingInv, Ring!TypeOK, Fifo!TypeOK
<1>2. CASE streamerPush
  BY <1>1, <1>2 DEF streamerPush, orderVars
<1>3. CASE streamerSend
  <2>1. fbn - PSize \in Nat
    BY <1>1, <1>3, RingFacts, PSizeAssumption DEF IInv, BroadcastInv, streamerSend, Fifo!TypeOK
  <2>2. QED  BY <1>1, <1>3, <2>1 DEF streamerSend, orderVars
<1>4. CASE streamerEof \/ streamerError
  BY <1>1, <1>4 DEF streamerEof, streamerError, orderVars, threadVars
<1>5. ASSUME NEW r \in Receivers, NEW list \in Lists, handle_rexmit(r, list)
      PROVE  TypeOK'
  BY <1>1, <1>5, NewOrders DEF handle_rexmit
<1>6. CASE controllerCheck \/ controllerOther \/ controllerError
  BY <1>1, <1>6 DEF controllerCheck, controllerOther, controllerError, orderVars, threadVars
<1>7. CASE resendPacket
  <2>1. First(orders) \in orders
    BY <1>1, <1>7, FirstIsOne DEF resendPacket, Orders
  <2>2. First(orders).fbn \in Nat /\ fbn \in Nat
    BY <1>1, <2>1, AskedAssumption DEF Orders, Fifo!TypeOK
  <2>3. Fifo!getPacket(First(orders).fbn) \in Nat \cup {Blank, NoPacket}
    BY <2>2, RingFacts DEF IInv
  <2>4. Resolution(First(orders)) \in
          [order : Orders, got : Nat \cup {Blank, NoPacket}, at : Nat]
    BY <1>1, <2>1, <2>2, <2>3 DEF Resolution
  <2>5. QED  BY <1>1, <1>7, <2>1, <2>4 DEF resendPacket, threadVars
<1>8. CASE resenderCheck \/ takeOrders \/ resenderSleep
  BY <1>1, <1>8 DEF resenderCheck, takeOrders, resenderSleep, orderVars
<1>9. CASE UNCHANGED vars
  BY <1>1, <1>9 DEF vars, orderVars, threadVars
<1>10. QED
  BY <1>2, <1>3, <1>4, <1>5, <1>6, <1>7, <1>8, <1>9
     DEF Next, Streamer, Controller, Resender, Done

\* LEMMA.  What the steps that move orders do to them; the others leave them alone.
LEMMA StepOrders ==
  ASSUME IInv, [Next]_vars
  PROVE  OrdersInv' /\ OrderInOnePlace' /\ OrdersAnsweredRight'
<1> USE DEF OrdersInv, OrderInOnePlace, OrdersAnsweredRight
<1>1. TypeOK /\ OrdersInv /\ OrderInOnePlace /\ OrdersAnsweredRight
  BY DEF IInv
<1>2. ASSUME NEW r \in Receivers, NEW list \in Lists, handle_rexmit(r, list)
      PROVE  OrdersInv' /\ OrderInOnePlace' /\ OrdersAnsweredRight'
  <2>1. /\ rexmit_orders' = rexmit_orders \cup newOrders(r, list) /\ resender' = resender
        /\ orders' = orders /\ resolved' = resolved /\ nextId' = nextId + Len(list)
    BY <1>2 DEF handle_rexmit
  <2>2. nextId \in Nat /\ nextId + Len(list) \in Nat /\ nextId + Len(list) >= nextId
    BY ListsAssumption DEF TypeOK, IInv
  <2>3. \A o \in rexmit_orders \cup orders \cup {s.order : s \in resolved} : o.id \in Nat
    BY <1>1 DEF TypeOK, Orders
  <2>4. \A o \in newOrders(r, list) :
           /\ o \in Orders /\ o.id > nextId /\ o.id <= nextId'
           /\ o.fbn % PSize = 0
    BY <2>1, <2>2, NewOrders
  <2>5. OrdersInv'
    BY <1>1, <2>1, <2>2, <2>3, <2>4 DEF Orders
  <2>6. \A o \in newOrders(r, list) :
           o \notin orders /\ \A s \in resolved : s.order # o
    BY <1>1, <2>2, <2>3, <2>4 DEF Orders
  <2>7. QED  BY <1>1, <2>1, <2>5, <2>6
<1>3. CASE takeOrders
  <2>1. /\ rexmit_orders' = {} /\ orders' = rexmit_orders /\ resender' = "resend"
        /\ UNCHANGED <<resolved, nextId>>
    BY <1>3 DEF takeOrders
  <2>2. QED  BY <1>1, <2>1
<1>4. CASE resendPacket
  <2> DEFINE o == First(orders)
  <2>1. /\ rexmit_orders' = rexmit_orders /\ orders' = orders \ {o}
        /\ resolved' = resolved \cup {Resolution(o)} /\ nextId' = nextId
        /\ resender' = "resend"
    BY <1>4 DEF resendPacket, threadVars
  <2>2. o \in orders
    BY <1>1, <1>4, FirstIsOne DEF resendPacket, TypeOK, Orders
  <2>3. o.fbn \in Nat /\ o.fbn % PSize = 0 /\ fbn \in Nat
    BY <1>1, <2>2, AskedAssumption DEF TypeOK, Orders, Fifo!TypeOK
  <2>4. Resolution(o).order = o /\ Resolution(o).at = fbn
        /\ Resolution(o).got = Fifo!getPacket(o.fbn)
    BY DEF Resolution
  <2>5. IF o.fbn < fbn /\ fbn - o.fbn <= Size * PSize
        THEN Fifo!getPacket(o.fbn) = o.fbn
        ELSE Fifo!getPacket(o.fbn) = IF o.fbn = 0 /\ fbn = 0 THEN Blank ELSE NoPacket
    BY <2>3, RingFacts DEF IInv, Fifo!Retained
  <2> HIDE DEF o
  <2>6. OrdersInv'
    BY <1>1, <2>1, <2>2, <2>4
  <2>7. OrderInOnePlace'
    BY <1>1, <2>1, <2>2, <2>4
  <2>8. OrdersAnsweredRight'
    BY <1>1, <2>1, <2>4, <2>5
  <2>9. QED  BY <2>6, <2>7, <2>8
<1>5. CASE /\ UNCHANGED <<rexmit_orders, orders, resolved, nextId>>
           /\ resender' = resender \/ (resender' # "resend" /\ orders = {})
  BY <1>1, <1>5
<1>6. QED
  BY <1>1, <1>2, <1>3, <1>4, <1>5
     DEF Next, Streamer, Controller, Resender, Done, vars, orderVars, threadVars,
       streamerPush, streamerSend, streamerEof, streamerError, controllerCheck, controllerOther,
       controllerError, resenderCheck, resenderSleep

THEOREM SenderInvariant == Spec => []IInv
<1>1. IInv /\ [Next]_vars => IInv'
  BY StepBroadcast, StepTypes, StepOrders, StepsOfFifo, RingFacts DEF IInv
<1>2. QED  BY InitInv, <1>1, PTL DEF Spec

-------------------------------------------------------------------------------
(* What follows.                                                           *)

\* THEOREM.  The types of the sender's state.
THEOREM SenderTypeCorrect == Spec => []TypeOK
<1>1. IInv => TypeOK
  BY DEF IInv
<1>2. QED  BY <1>1, SenderInvariant, PTL

\* THEOREM.  A packet that was broadcast can be had until Size newer ones were pushed,
\* wherever the streamer is between its push and its broadcast.
THEOREM BroadcastServed == Spec => []BroadcastIsServed
<1>1. ASSUME IInv, NEW n \in broadcast \cap Asked, fbn - n <= Size * PSize
      PROVE  Fifo!getPacket(n) = n
  <2>1. n \in Nat /\ n % PSize = 0 /\ n < fbn /\ fbn \in Nat
    BY <1>1, AskedAssumption, RingFacts DEF IInv, BroadcastInv, Fifo!TypeOK
  <2>2. Fifo!Retained(n)
    BY <1>1, <2>1 DEF Fifo!Retained
  <2>3. QED  BY <1>1, <2>1, <2>2, RingFacts DEF IInv
<1>2. IInv => BroadcastIsServed
  BY <1>1 DEF BroadcastIsServed
<1>3. QED  BY <1>2, SenderInvariant, PTL

\* THEOREM.  Every order is answered with its packet while the store has it, and with
\* nothing once it has not, however long it waited in the lists.
THEOREM AnsweredRight == Spec => []OrdersAnsweredRight
<1>1. IInv => OrdersAnsweredRight
  BY DEF IInv
<1>2. QED  BY <1>1, SenderInvariant, PTL

\* THEOREM.  The hand-over from controller to resender never doubles an order.
THEOREM InOnePlace == Spec => []OrderInOnePlace
<1>1. IInv => OrderInOnePlace
  BY DEF IInv
<1>2. QED  BY <1>1, SenderInvariant, PTL

\* THEOREM.  An order leaves the lists only by being resolved.
THEOREM OrdersAreKept == Spec => NoOrderLost
<1> DEFINE Kept == \A o \in rexmit_orders \cup orders :
                     \/ o \in rexmit_orders' \cup orders'
                     \/ \E r \in resolved' : r.order = o
<1>1. ASSUME IInv, Next
      PROVE  Kept
  <2>1. CASE resendPacket
    <3>1. /\ rexmit_orders' = rexmit_orders /\ orders' = orders \ {First(orders)}
          /\ Resolution(First(orders)) \in resolved'
      BY <2>1 DEF resendPacket
    <3>2. Resolution(First(orders)).order = First(orders)
      BY DEF Resolution
    <3>3. QED  BY <3>1, <3>2
  <2>2. CASE takeOrders
    BY <1>1, <2>2 DEF takeOrders, IInv, OrdersInv
  <2>3. CASE rexmit_orders \subseteq rexmit_orders' /\ orders' = orders
    BY <2>3
  <2>4. QED
    BY <1>1, <2>1, <2>2, <2>3
       DEF Next, Streamer, Controller, Resender, Done, vars, orderVars, streamerPush,
         streamerSend, streamerEof, streamerError, controllerCheck, controllerOther,
         handle_rexmit, controllerError, resenderCheck, resenderSleep
<1>2. IInv /\ [Next]_vars => [Kept]_vars
  BY <1>1
<1> HIDE DEF Kept
<1>3. Spec => [][Kept]_vars
  BY <1>2, SenderInvariant, PTL DEF Spec
<1>4. QED  BY <1>3 DEF Kept, NoOrderLost

\* THEOREM.  The threads use the fifo as its specification says.
THEOREM SenderUsesFifo == Spec => UsesFifo
<1>1. Init => Fifo!Init
  BY DEF Init
<1>2. IInv /\ [Next]_vars => [Fifo!Next]_fifoVars
  BY StepsOfFifo DEF IInv
<1>3. QED  BY <1>1, <1>2, SenderInvariant, PTL DEF Spec, UsesFifo

\* THEOREM.  So the threads have, among them, a store that keeps the last Size packets and
\* answers as the abstract window does.
THEOREM SenderKeepsWindow == Spec => Ring!ImplementsWindow
<1>1. Fifo!Init => Ring!Init
  BY DEF Ring!Init, Fifo!Init, Ring!PacketFifo, Fifo!PacketFifo
<1>2. [Fifo!Next]_fifoVars => [Ring!Next]_(Ring!vars)
  BY FifoStepIsRings
<1>3. Ring!Spec => Ring!ImplementsWindow
  BY Ring!FifoImplementsWindow, SizeAssumption, PSizeAssumption, MaxBytesAssumption,
     AskedAssumption, MarkerAssumption
<1>4. QED  BY <1>1, <1>2, <1>3, SenderUsesFifo, PTL DEF UsesFifo, Ring!Spec
===============================================================================
